---- MODULE Spec2Model ----
(***************************************************************************)
(* A model of eyes-on-claude-code's two concurrency-sensitive subsystems:   *)
(*   - the event-queue drain pipeline (events.rs, state.rs) that turns the  *)
(*     hook's append-only events.jsonl into Session Store updates, and      *)
(*   - the difit process registry (difit.rs, commands.rs) that owns the     *)
(*     diff-viewer child processes.                                         *)
(***************************************************************************)
EXTENDS Integers, Sequences, FiniteSets, TLC

VARIABLES
    \* ---- AppState (state.rs) ----
    sessions,        \* HashMap<String, SessionInfo>: a function on the keys present
    recent_events,   \* VecDeque<EventInfo>
    last_file_pos,   \* u64
    \* ---- the log directory and the drain in progress (events.rs) ----
    logFile,         \* events.jsonl: whether it exists, and its lines
    procFile,        \* the events.processing.*.jsonl sibling of the current drain
    dpc,             \* position of the watcher thread inside drain_events_queue
    rdpos,           \* number of lines of the sibling file the reader has consumed
    new_events,      \* the Vec<EventInfo> the drain call returns
    held,            \* the lines events.jsonl held when a rename last failed
    leftovers,       \* the sibling files that a failed delete left behind
    \* ---- the external writer (the hook) ----
    wfd,             \* the file the hook's open descriptor refers to
    written,         \* every line the hook has written so far, in write order
    \* ---- the feeder of process_event (pure-function harness) ----
    fed,             \* number of events handed to process_event directly
    \* ---- DifitProcessRegistry: RegistryInner behind its Mutex (difit.rs) ----
    processes,       \* HashMap<String, Child>: window label -> child
    diff_hashes,     \* HashMap<String, u64>
    next_port,       \* u16
    lockHolder,      \* the thread holding the Mutex, or "none"
    lockSeq,         \* number of lock acquisitions so far
    \* ---- threads using the registry ----
    tpc,             \* each thread's position
    tl,              \* each thread's call: arguments, locals and return value
    children,        \* every child process spawned so far: key, state, kill() calls
    windows,         \* labels of the diff windows that exist
    calls,           \* number of registry calls and diff requests made so far
    exited,          \* the application has exited
    \* ---- the Session Store's Mutex and the threads that take it (main.rs) ----
    stateLock,       \* the thread holding Arc<Mutex<AppState>>, or "none"
    spc,             \* position of the setup closure, the watcher thread, a command
    notified,        \* file-system notifications waiting in the watcher's channel
    \* ---- one call of start_difit_server and the child it spawns (difit.rs) ----
    sd,              \* the call's position, the child's pipes, the channel, the result
    \* ---- the diff-view requests handled so far (commands.rs) ----
    requests,        \* each request's arguments, its window label and its outcome
    \* ---- the log as bytes and one call of the seek-based reader (claude-monitor-tauri) ----
    seek             \* the file's bytes, the call's position, observed size and cursor

storeVars == <<sessions, recent_events, last_file_pos>>
drainVars == <<logFile, procFile, dpc, rdpos, new_events, held, leftovers>>
writerVars == <<wfd, written>>
regVars == <<processes, diff_hashes, next_port, lockHolder, lockSeq, tpc, tl,
             children, windows, calls, exited>>
lockVars == <<stateLock, spc, notified>>
diffVars == <<sd, requests>>
auxVars == <<stateLock, spc, notified, sd, requests, seek>>
vars == <<sessions, recent_events, last_file_pos, logFile, procFile, dpc, rdpos,
          new_events, held, leftovers, wfd, written, fed, processes, diff_hashes, next_port,
          lockHolder, lockSeq, tpc, tl, children, windows, calls, exited,
          stateLock, spc, notified, sd, requests, seek>>

----------------------------------------------------------------------------
(* Bounds of the model *)

\* number of events fed directly to process_event
MaxFed == 2
\* number of lines the hook writes
MaxLines == 3
\* number of registry calls made by the worker threads
MaxCalls == 4
\* number of diff-view requests
MaxRequests == 2
\* number of events of a long feed whose kind is free at its start, and again
\* once the feed is longer than RecentEvents can hold
FreeHead == 2
\* number of events of a long feed
MaxSerial == 52
\* number of notifications the watcher's channel holds
MaxPending == 2
\* length of a diff, and capacity of the pipe to the child's stdin, in the
\* same unit
MaxDiff == 2
PipeCap == 1
\* number of lines the child writes to its stderr
MaxStderr == 11

(* Program constants *)

\* events.rs:10  `if state.recent_events.len() > 50`
RecentCap == 50
\* difit.rs:14  const DEFAULT_DIFIT_PORT: u16 = 4966
DEFAULT_DIFIT_PORT == 4966
\* difit.rs:65  next_port: u16
PortModulus == 65536
\* difit.rs:347  reader.lines().take(10)
TakeLines == 10

\* a path of the log directory: whether a file is there, and its lines
NoFile == [exists |-> FALSE, lines |-> <<>>]
EmptyFile == [exists |-> TRUE, lines |-> <<>>]

----------------------------------------------------------------------------
(* state.rs: the data model *)

EventType == {"SessionStart", "SessionEnd", "Notification", "Stop",
              "PostToolUse", "UserPromptSubmit", "Unknown"}
NotificationType == {"PermissionPrompt", "IdlePrompt", "Other"}
SessionStatus == {"Active", "WaitingPermission", "WaitingInput", "Completed"}

\* helper: HashMap::insert
MapInsert(m, k, v) == [x \in (DOMAIN m) \cup {k} |-> IF x = k THEN v ELSE m[x]]
\* helper: HashMap::remove
MapRemove(m, k) == [x \in (DOMAIN m) \ {k} |-> m[x]]
EmptyMap == [x \in {} |-> x]

\* state.rs:155-176  AppState::upsert_session
upsert_session_takes_project_from_event(sess, key, event, status, waiting_for) ==
    MapInsert(sess, key,
              [project_name |-> event.project_name,
               project_dir  |-> event.project_dir,
               status       |-> status,
               last_event   |-> event.timestamp,
               waiting_for  |-> waiting_for])
upsert_session_keeps_waiting_for(sess, key, event, status, waiting_for) ==
    IF key \in DOMAIN sess
    THEN [sess EXCEPT ![key] = [@ EXCEPT !.status = status,
                                         !.last_event = event.timestamp]]
    ELSE MapInsert(sess, key,
                   [project_name |-> event.project_name,
                    project_dir  |-> event.project_dir,
                    status       |-> status,
                    last_event   |-> event.timestamp,
                    waiting_for  |-> waiting_for])
upsert_session(sess, key, event, status, waiting_for) ==
    IF key \in DOMAIN sess
    THEN [sess EXCEPT ![key] = [@ EXCEPT !.status = status,
                                         !.last_event = event.timestamp,
                                         !.waiting_for = waiting_for]]
    ELSE MapInsert(sess, key,
                   [project_name |-> event.project_name,
                    project_dir  |-> event.project_dir,
                    status       |-> status,
                    last_event   |-> event.timestamp,
                    waiting_for  |-> waiting_for])

\* commands.rs:29  state_guard.sessions.remove(&project_dir)
remove_session_by_dir_or_name(sess, project_dir) ==
    [x \in {y \in DOMAIN sess : /\ sess[y].project_dir # project_dir
                                /\ sess[y].project_name # project_dir} |-> sess[x]]
remove_session(sess, project_dir) == MapRemove(sess, project_dir)

\* commands.rs:43  state_guard.sessions.clear()
clear_all_sessions(sess) == EmptyMap

----------------------------------------------------------------------------
(* events.rs: process_event *)

\* events.rs:9-12  push_back, then pop_front once the length exceeds 50
push_recent_pops_at_cap(re, event) ==
    LET r == Append(re, event)
    IN  IF Len(r) >= RecentCap THEN Tail(r) ELSE r
push_recent(re, event) ==
    LET r == Append(re, event)
    IN  IF Len(r) > RecentCap THEN Tail(r) ELSE r

\* events.rs:14-18
event_key_prefers_name(event) ==
    IF event.project_name = "" THEN event.project_dir ELSE event.project_name
event_key(event) ==
    IF event.project_dir = "" THEN event.project_name ELSE event.project_dir

\* events.rs:21-32  the SessionStart arm
on_session_start_reuses_upsert(sess, key, event) ==
    upsert_session(sess, key, event, "Active", "")
on_session_start(sess, key, event) ==
    MapInsert(sess, key,
              [project_name |-> event.project_name,
               project_dir  |-> event.project_dir,
               status       |-> "Active",
               last_event   |-> event.timestamp,
               waiting_for  |-> ""])

\* events.rs:33-35  the SessionEnd arm
on_session_end_by_name(sess, key, event) ==
    MapRemove(sess, event.project_name)
on_session_end(sess, key, event) ==
    MapRemove(sess, key)

\* events.rs:37-41
notification_status_swapped(nt) ==
    CASE nt = "PermissionPrompt" -> "WaitingInput"
      [] nt = "IdlePrompt"       -> "WaitingPermission"
      [] OTHER                   -> "Active"
notification_status(nt) ==
    CASE nt = "PermissionPrompt" -> "WaitingPermission"
      [] nt = "IdlePrompt"       -> "WaitingInput"
      [] OTHER                   -> "Active"

\* events.rs:42-48
waiting_info_tool_name_first(event) ==
    IF event.tool_name # "" THEN event.tool_name
    ELSE IF event.message # "" THEN event.message
    ELSE ""
waiting_info(event) ==
    IF event.message # "" THEN event.message
    ELSE IF event.tool_name # "" THEN event.tool_name
    ELSE ""

\* events.rs:36-50  the Notification arm
on_notification(sess, key, event) ==
    upsert_session(sess, key, event,
                   notification_status(event.notification_type),
                   waiting_info(event))

\* events.rs:61-65  the Unknown arm
on_unknown_upserts(sess, key, event) ==
    upsert_session(sess, key, event, "Active", "")
on_unknown(sess, key, event) ==
    IF key \in DOMAIN sess
    THEN [sess EXCEPT ![key] = [@ EXCEPT !.last_event = event.timestamp]]
    ELSE sess

\* events.rs:20-66  the match on event.event_type
apply_to_sessions_keeps_waiting_for(sess, event) ==
    LET key == event_key(event)
        kept == IF key \in DOMAIN sess THEN sess[key].waiting_for ELSE ""
    IN  CASE event.event_type = "SessionStart"     -> on_session_start(sess, key, event)
          [] event.event_type = "SessionEnd"       -> on_session_end(sess, key, event)
          [] event.event_type = "Notification"     -> on_notification(sess, key, event)
          [] event.event_type = "Stop"             -> upsert_session(sess, key, event, "Completed", kept)
          [] event.event_type = "PostToolUse"      -> upsert_session(sess, key, event, "Active", kept)
          [] event.event_type = "UserPromptSubmit" -> upsert_session(sess, key, event, "Active", kept)
          [] OTHER                                 -> on_unknown(sess, key, event)
apply_to_sessions(sess, event) ==
    LET key == event_key(event)
    IN  CASE event.event_type = "SessionStart"     -> on_session_start(sess, key, event)
          [] event.event_type = "SessionEnd"       -> on_session_end(sess, key, event)
          [] event.event_type = "Notification"     -> on_notification(sess, key, event)
          [] event.event_type = "Stop"             -> upsert_session(sess, key, event, "Completed", "")
          [] event.event_type = "PostToolUse"      -> upsert_session(sess, key, event, "Active", "")
          [] event.event_type = "UserPromptSubmit" -> upsert_session(sess, key, event, "Active", "")
          [] OTHER                                 -> on_unknown(sess, key, event)

\* events.rs:8-67  process_event(state, event)
process_event_records_session_changes_only(event) ==
    /\ recent_events' = IF apply_to_sessions(sessions, event) = sessions
                        THEN recent_events
                        ELSE push_recent(recent_events, event)
    /\ sessions' = apply_to_sessions(sessions, event)
process_event(event) ==
    /\ recent_events' = push_recent(recent_events, event)
    /\ sessions' = apply_to_sessions(sessions, event)

----------------------------------------------------------------------------
(* The log format: one JSON object per line (state.rs:5-47, serde) *)

\* state.rs:5-16  #[serde(rename_all = "snake_case")] EventType, #[serde(other)] Unknown
parse_event_type(tag) ==
    CASE tag = "session_start"      -> "SessionStart"
      [] tag = "session_end"        -> "SessionEnd"
      [] tag = "notification"       -> "Notification"
      [] tag = "stop"               -> "Stop"
      [] tag = "post_tool_use"      -> "PostToolUse"
      [] tag = "user_prompt_submit" -> "UserPromptSubmit"
      [] OTHER                      -> "Unknown"

\* state.rs:18-25, 37-38, 43-47  NotificationType: snake_case tags, #[serde(other)]
\* Other, and #[serde(default)] = Other when the field is missing
parse_notification_type(tag) ==
    CASE tag = "permission_prompt" -> "PermissionPrompt"
      [] tag = "idle_prompt"       -> "IdlePrompt"
      [] OTHER                     -> "Other"

\* the marker of a field that the JSON object does not have
Missing == "<missing>"

\* state.rs:27-41 + events.rs:134  serde_json::from_str::<EventInfo>(&line)
parse_line(line) ==
    IF line.kind # "json"
    THEN [ok |-> FALSE]
    ELSE [ok |-> TRUE,
          event |-> [timestamp         |-> line.timestamp,
                     event_type        |-> parse_event_type(line.event),
                     matcher           |-> line.matcher,
                     project_name      |-> line.project_name,
                     project_dir       |-> line.project_dir,
                     session_id        |-> line.session_id,
                     message           |-> line.message,
                     notification_type |-> parse_notification_type(line.notification_type),
                     tool_name         |-> IF line.tool_name = Missing THEN ""
                                           ELSE line.tool_name]]

\* a JSON line as the hook writes it; session_id n numbers the lines in write order
JsonLine(n, ts, tag) ==
    [kind |-> "json", timestamp |-> ts, event |-> tag, matcher |-> "",
     project_name |-> "a", project_dir |-> "/a", session_id |-> n,
     message |-> "", notification_type |-> Missing, tool_name |-> Missing]

\* the lines the hook may write as its n-th line
HookLines(n) ==
    {JsonLine(n, ts, tag) : ts \in {1, 2}, tag \in {"session_start", "session_end"}}

\* a non-blank line that serde_json rejects (events.rs:141), and an empty line
\* (events.rs:131); session_id n is its number in write order
GarbageLine(n) == [kind |-> "garbage", session_id |-> n]
BlankLine(n) == [kind |-> "blank", session_id |-> n]

----------------------------------------------------------------------------
(* events.rs: drain_events_queue, one action per filesystem step.  The      *)
(* caller (main.rs:114-134, main.rs:203) holds the AppState lock for the    *)
(* whole call, so one drain runs at a time.                                 *)

\* where the hook's descriptor points after the log file was renamed
FdAfterRename(fd) == IF fd = "log" THEN "proc" ELSE fd
\* where it points after the sibling file was unlinked
FdAfterDelete(fd) == IF fd = "proc" THEN "gone" ELSE fd

\* events.rs:77-97  absent or zero-length log: return the empty Vec
DrainNothingSkipsSizeCheck ==
    /\ dpc = "idle"
    /\ ~logFile.exists \/ logFile.lines = <<>>
    /\ new_events' = <<>>
    /\ dpc' = IF logFile.exists THEN "rename" ELSE "idle"
    /\ UNCHANGED <<storeVars, logFile, procFile, rdpos, writerVars, fed, regVars>>
    /\ UNCHANGED <<held, leftovers>>
DrainNothing ==
    /\ dpc = "idle"
    /\ ~logFile.exists \/ logFile.lines = <<>>
    /\ new_events' = <<>>
    /\ UNCHANGED <<storeVars, logFile, procFile, dpc, rdpos, writerVars, fed, regVars>>
    /\ UNCHANGED <<held, leftovers>>

\* events.rs:77-104  a non-empty log: go on to the rename
DrainBegin ==
    /\ dpc = "idle"
    /\ logFile.exists /\ logFile.lines # <<>>
    /\ new_events' = <<>>
    /\ dpc' = "rename"
    /\ UNCHANGED <<storeVars, logFile, procFile, rdpos, writerVars, fed, regVars>>
    /\ UNCHANGED <<held, leftovers>>

\* events.rs:107  std::fs::rename(&events_file, &processing_path) succeeds
DrainRenameCopies ==
    /\ dpc = "rename"
    /\ procFile' = logFile
    /\ dpc' = "recreate"
    /\ UNCHANGED <<storeVars, logFile, rdpos, new_events, writerVars, fed, regVars>>
    /\ UNCHANGED <<held, leftovers>>
DrainRename ==
    /\ dpc = "rename"
    /\ procFile' = logFile
    /\ logFile' = NoFile
    /\ wfd' = FdAfterRename(wfd)
    /\ dpc' = "recreate"
    /\ UNCHANGED <<storeVars, rdpos, new_events, written, fed, regVars>>
    /\ UNCHANGED <<held, leftovers>>

\* events.rs:107-115  the rename fails: warn and return the empty Vec
DrainRenameFailsFallsThrough ==
    /\ dpc = "rename"
    /\ logFile' = EmptyFile
    /\ dpc' = "idle"
    /\ UNCHANGED <<storeVars, procFile, rdpos, new_events, writerVars, fed, regVars>>
    /\ held' = logFile.lines
    /\ UNCHANGED leftovers
DrainRenameFails ==
    /\ dpc = "rename"
    /\ dpc' = "idle"
    /\ UNCHANGED <<storeVars, logFile, procFile, rdpos, new_events, writerVars, fed, regVars>>
    /\ held' = logFile.lines
    /\ UNCHANGED leftovers

\* events.rs:118  std::fs::write(&events_file, "") creates or truncates the file
DrainRecreate ==
    /\ dpc = "recreate"
    /\ logFile' = EmptyFile
    /\ dpc' = "open"
    /\ UNCHANGED <<storeVars, procFile, rdpos, new_events, writerVars, fed, regVars>>
    /\ UNCHANGED <<held, leftovers>>

\* events.rs:118-124  the write fails: log the error and go on
DrainRecreateFails ==
    /\ dpc = "recreate"
    /\ dpc' = "open"
    /\ UNCHANGED <<storeVars, logFile, procFile, rdpos, new_events, writerVars, fed, regVars>>
    /\ UNCHANGED <<held, leftovers>>

\* events.rs:127-129  File::open(&processing_path) succeeds
DrainOpen ==
    /\ dpc = "open"
    /\ rdpos' = 0
    /\ dpc' = "read"
    /\ UNCHANGED <<storeVars, logFile, procFile, new_events, writerVars, fed, regVars>>
    /\ UNCHANGED <<held, leftovers>>

\* events.rs:152-159  File::open(&processing_path) fails: log the error and go
\* on to the delete
DrainOpenFails ==
    /\ dpc = "open"
    /\ rdpos' = 0
    /\ dpc' = "delete"
    /\ UNCHANGED <<storeVars, logFile, procFile, new_events, writerVars, fed, regVars>>
    /\ UNCHANGED <<held, leftovers>>

\* events.rs:130  reader.lines().map_while(Result::ok): reading the next line
\* gives Err (an I/O error, or bytes that are not UTF-8): the loop ends there
DrainReadError ==
    /\ dpc = "read"
    /\ rdpos < Len(procFile.lines)
    /\ dpc' = "delete"
    /\ UNCHANGED <<storeVars, logFile, procFile, rdpos, new_events, writerVars, fed, regVars>>
    /\ UNCHANGED <<held, leftovers>>

\* events.rs:129-130  BufReader::lines(): the lines in file order
next_line_by_timestamp(lines, pos) ==
    (SelectSeq(lines, LAMBDA l : l.timestamp = 1)
        \o SelectSeq(lines, LAMBDA l : l.timestamp # 1))[pos + 1]
next_line(lines, pos) == lines[pos + 1]

\* events.rs:130-150  one iteration of `for line in reader.lines()`
DrainReadLineStopsAtBadLine ==
    /\ dpc = "read"
    /\ rdpos < Len(procFile.lines)
    /\ rdpos' = rdpos + 1
    /\ LET line == next_line(procFile.lines, rdpos)
           parsed == parse_line(line)
       IN  IF line.kind = "blank"
           THEN UNCHANGED <<sessions, recent_events, new_events, dpc>>
           ELSE IF parsed.ok
           THEN /\ process_event(parsed.event)
                /\ new_events' = Append(new_events, parsed.event)
                /\ UNCHANGED dpc
           ELSE /\ dpc' = "delete"
                /\ UNCHANGED <<sessions, recent_events, new_events>>
    /\ UNCHANGED <<last_file_pos, logFile, procFile, writerVars, fed, regVars>>
    /\ UNCHANGED <<held, leftovers>>
DrainReadLine ==
    /\ dpc = "read"
    /\ rdpos < Len(procFile.lines)
    /\ rdpos' = rdpos + 1
    /\ LET line == next_line(procFile.lines, rdpos)
           parsed == parse_line(line)
       IN  IF line.kind = "blank"
           THEN UNCHANGED <<sessions, recent_events, new_events>>
           ELSE IF parsed.ok
           THEN /\ process_event(parsed.event)
                /\ new_events' = Append(new_events, parsed.event)
           ELSE UNCHANGED <<sessions, recent_events, new_events>>
    /\ UNCHANGED <<last_file_pos, logFile, procFile, dpc, writerVars, fed, regVars>>
    /\ UNCHANGED <<held, leftovers>>

\* events.rs:130  the iterator reaches the end of the sibling file
DrainReadEof ==
    /\ dpc = "read"
    /\ rdpos = Len(procFile.lines)
    /\ dpc' = "delete"
    /\ UNCHANGED <<storeVars, logFile, procFile, rdpos, new_events, writerVars, fed, regVars>>
    /\ UNCHANGED <<held, leftovers>>

\* events.rs:163-175  remove_file succeeds; last_file_pos = 0; return new_events
DrainDelete ==
    /\ dpc = "delete"
    /\ procFile' = NoFile
    /\ wfd' = FdAfterDelete(wfd)
    /\ last_file_pos' = 0
    /\ dpc' = "idle"
    /\ UNCHANGED <<sessions, recent_events, logFile, rdpos, new_events, written, fed, regVars>>
    /\ held' = <<>>
    /\ UNCHANGED leftovers

\* events.rs:104-107  the sibling path (milliseconds + pid) is the path of a file
\* that a failed delete left behind: the rename replaces that file
DrainRenameOver ==
    /\ dpc = "rename"
    /\ \E f \in leftovers : leftovers' = leftovers \ {f}
    /\ procFile' = logFile
    /\ logFile' = NoFile
    /\ wfd' = FdAfterRename(wfd)
    /\ dpc' = "recreate"
    /\ UNCHANGED <<storeVars, rdpos, new_events, held, written, fed, regVars>>

\* events.rs:163-175  remove_file fails: log the error; last_file_pos = 0; return
\* new_events.  The sibling file stays in the directory; a descriptor the hook
\* holds on it now refers to a file that no drain reads.
DrainDeleteFailsRequeues ==
    /\ dpc = "delete"
    /\ leftovers' = leftovers \cup {procFile.lines}
    /\ logFile' = [exists |-> TRUE, lines |-> procFile.lines \o logFile.lines]
    /\ procFile' = NoFile
    /\ wfd' = FdAfterDelete(wfd)
    /\ last_file_pos' = 0
    /\ held' = <<>>
    /\ dpc' = "idle"
    /\ UNCHANGED <<sessions, recent_events, rdpos, new_events, written, fed, regVars>>
DrainDeleteFails ==
    /\ dpc = "delete"
    /\ leftovers' = leftovers \cup {procFile.lines}
    /\ procFile' = NoFile
    /\ wfd' = FdAfterDelete(wfd)
    /\ last_file_pos' = 0
    /\ held' = <<>>
    /\ dpc' = "idle"
    /\ UNCHANGED <<sessions, recent_events, logFile, rdpos, new_events, written, fed, regVars>>

----------------------------------------------------------------------------
(* The hook: it appends one line to events.jsonl, creating the file when    *)
(* it is missing (open with O_APPEND|O_CREAT, write, close).                *)

HookOpen ==
    /\ wfd = "closed"
    /\ Len(written) < MaxLines
    /\ wfd' = "log"
    /\ logFile' = IF logFile.exists THEN logFile ELSE EmptyFile
    /\ UNCHANGED <<storeVars, procFile, dpc, rdpos, new_events, written, fed, regVars>>
    /\ UNCHANGED <<held, leftovers>>

HookWrite ==
    /\ wfd # "closed"
    /\ \E line \in HookLines(Len(written) + 1) :
          /\ written' = Append(written, line)
          /\ logFile' = IF wfd = "log"
                        THEN [logFile EXCEPT !.lines = Append(@, line)]
                        ELSE logFile
          /\ procFile' = IF wfd = "proc"
                         THEN [procFile EXCEPT !.lines = Append(@, line)]
                         ELSE procFile
    /\ wfd' = "closed"
    /\ UNCHANGED <<storeVars, dpc, rdpos, new_events, fed, regVars>>
    /\ UNCHANGED <<held, leftovers>>

\* a line that is not an EventInfo object, or an empty line, reaches the file
HookWriteMalformed ==
    /\ wfd # "closed"
    /\ \E line \in {GarbageLine(Len(written) + 1), BlankLine(Len(written) + 1)} :
          /\ written' = Append(written, line)
          /\ logFile' = IF wfd = "log"
                        THEN [logFile EXCEPT !.lines = Append(@, line)]
                        ELSE logFile
          /\ procFile' = IF wfd = "proc"
                         THEN [procFile EXCEPT !.lines = Append(@, line)]
                         ELSE procFile
    /\ wfd' = "closed"
    /\ UNCHANGED <<storeVars, dpc, rdpos, new_events, held, leftovers, fed, regVars>>

----------------------------------------------------------------------------
(* process_event applied to events given directly *)

\* (project_dir, project_name) pairs: two names under one directory, and no directory
Projects == {<<"/a", "a">>, <<"/a", "b">>, <<"", "a">>}

\* the EventInfo values that are fed; message is free on every event kind,
\* notification_type and tool_name on Notification events
EventInputs ==
    {[timestamp |-> ts, event_type |-> et, matcher |-> "",
      project_name |-> p[2], project_dir |-> p[1], session_id |-> 0,
      message |-> m, notification_type |-> nt, tool_name |-> tn] :
        ts \in {1, 2}, et \in EventType, p \in Projects,
        m \in {"", "msg"}, nt \in NotificationType, tn \in {"", "tool"}}

Feed ==
    /\ fed < MaxFed
    /\ fed' = fed + 1
    /\ \E event \in EventInputs :
          /\ event.event_type # "Notification" =>
                event.notification_type = "Other" /\ event.tool_name = ""
          /\ process_event(event)
    /\ UNCHANGED <<last_file_pos, drainVars, writerVars, regVars>>

\* the n-th event of a long feed; session_id n numbers the events in feed order
SerialEvent(n, et) ==
    [timestamp |-> n, event_type |-> et, matcher |-> "",
     project_name |-> "a", project_dir |-> "/a", session_id |-> n,
     message |-> "", notification_type |-> "Other", tool_name |-> ""]

\* the kinds the n-th event of a long feed may have
SerialKinds(n) ==
    IF n <= FreeHead \/ n > RecentCap THEN {"SessionStart", "Stop"} ELSE {"PostToolUse"}

\* process_event applied to the next event of a long feed
FeedSerial ==
    /\ fed < MaxSerial
    /\ fed' = fed + 1
    /\ \E et \in SerialKinds(fed + 1) : process_event(SerialEvent(fed + 1, et))
    /\ UNCHANGED <<last_file_pos, drainVars, writerVars, regVars>>

----------------------------------------------------------------------------
(* difit.rs: DifitProcessRegistry.  Every method takes self.inner.lock(),   *)
(* runs its body and releases the guard on return.  A thread's call is      *)
(* tl[t]; an Option is a set with at most one element.                      *)

Threads == {"main", "w1", "w2"}
Workers == {"w1", "w2"}
Keys == {"k1", "k2"}
Hashes == {1, 2}

NoCall ==
    [op |-> "none", key |-> "", hash |-> 0, child |-> {}, previous_hash |-> {},
     process |-> {}, result |-> "none", seq |-> 0, contended |-> FALSE]

NewCall(op, key, hash, child) ==
    [NoCall EXCEPT !.op = op, !.key = key, !.hash = hash, !.child = child]

\* the children spawned for a key that are running
Alive(k) == {p \in DOMAIN children : children[p].key = k /\ children[p].state = "running"}

\* Command::spawn(): a new running child for window label k
Spawned(k) == Append(children, [key |-> k, state |-> "running", kills |-> 0])

\* `let _ = process.kill(); let _ = process.wait();`  (difit.rs:148-149, 173-174, 189-190)
kill_and_wait(ch, p) ==
    [ch EXCEPT ![p] = [@ EXCEPT !.state = "reaped", !.kills = @ + 1]]

\* difit.rs:97, 115, 127, 140, 170, 186  self.inner.lock() returns the guard
LockNotExclusive(t) ==
    /\ ~exited
    /\ tpc[t] = "lock"
    /\ lockHolder' = t
    /\ lockSeq' = lockSeq + 1
    /\ tl' = [tl EXCEPT ![t].seq = lockSeq + 1,
                        ![t].contended = \E u \in Threads \ {t} :
                            /\ tpc[u] = "lock"
                            /\ tl[u].op = tl[t].op
                            /\ tl[u].key = tl[t].key
                            /\ tl[u].hash = tl[t].hash]
    /\ tpc' = [tpc EXCEPT ![t] = "run"]
    /\ UNCHANGED <<processes, diff_hashes, next_port, children, windows, calls, exited>>
    /\ UNCHANGED <<storeVars, drainVars, writerVars, fed>>
Lock(t) ==
    /\ ~exited
    /\ tpc[t] = "lock"
    /\ lockHolder = "none"
    /\ lockHolder' = t
    /\ lockSeq' = lockSeq + 1
    /\ tl' = [tl EXCEPT ![t].seq = lockSeq + 1,
                        ![t].contended = \E u \in Threads \ {t} :
                            /\ tpc[u] = "lock"
                            /\ tl[u].op = tl[t].op
                            /\ tl[u].key = tl[t].key
                            /\ tl[u].hash = tl[t].hash]
    /\ tpc' = [tpc EXCEPT ![t] = "run"]
    /\ UNCHANGED <<processes, diff_hashes, next_port, children, windows, calls, exited>>
    /\ UNCHANGED <<storeVars, drainVars, writerVars, fed>>

\* std::sync::Mutex: a thread that panics while it holds the guard poisons the
\* lock; the guard is dropped by the unwinding, the thread is gone
PanicHolding(t) ==
    /\ ~exited
    /\ tpc[t] \in {"run", "cau_changed", "cau_insert", "ret"}
    /\ lockHolder = t
    /\ lockHolder' = "poisoned"
    /\ tpc' = [tpc EXCEPT ![t] = "dead"]
    /\ UNCHANGED <<processes, diff_hashes, next_port, lockSeq, tl, children, windows, calls, exited>>
    /\ UNCHANGED <<storeVars, drainVars, writerVars, fed>>

\* the value each method returns from its `Err(e)` arm
\* (difit.rs:106-109, 119-121, 131-133, 160-164, 178-180, 194-196)
poisoned_result(op) ==
    CASE op = "compare_and_update_hash"          -> "Changed"
      [] op \in {"get_next_port", "open_diff"}   -> DEFAULT_DIFIT_PORT
      [] OTHER                                   -> "unit"

\* self.inner.lock() returns Err(PoisonError): the method logs and returns
LockPoisonedIntoInner(t) ==
    /\ ~exited
    /\ tpc[t] = "lock"
    /\ lockHolder = "poisoned"
    /\ lockHolder' = t
    /\ lockSeq' = lockSeq + 1
    /\ tl' = [tl EXCEPT ![t].seq = lockSeq + 1]
    /\ tpc' = [tpc EXCEPT ![t] = "run"]
    /\ UNCHANGED <<processes, diff_hashes, next_port, children, windows, calls, exited>>
    /\ UNCHANGED <<storeVars, drainVars, writerVars, fed>>
LockPoisoned(t) ==
    /\ ~exited
    /\ tpc[t] = "lock"
    /\ lockHolder = "poisoned"
    /\ tl' = [tl EXCEPT ![t].result = poisoned_result(tl[t].op)]
    /\ tpc' = [tpc EXCEPT ![t] = IF tl[t].op = "open_diff" THEN "od_window" ELSE "idle"]
    /\ UNCHANGED <<processes, diff_hashes, next_port, lockHolder, lockSeq, children, windows, calls, exited>>
    /\ UNCHANGED <<storeVars, drainVars, writerVars, fed>>

\* difit.rs:96-111  get_next_port, also as open_diff calls it (commands.rs:217)
RunGetPortNoReset(t) ==
    /\ tpc[t] = "run"
    /\ tl[t].op \in {"get_next_port", "open_diff"}
    /\ next_port' = (next_port + 1) % PortModulus
    /\ tl' = [tl EXCEPT ![t].result = next_port]
    /\ tpc' = [tpc EXCEPT ![t] = "ret"]
    /\ UNCHANGED <<processes, diff_hashes, lockHolder, lockSeq, children, windows, calls, exited>>
    /\ UNCHANGED <<storeVars, drainVars, writerVars, fed>>
RunGetPort(t) ==
    /\ tpc[t] = "run"
    /\ tl[t].op \in {"get_next_port", "open_diff"}
    /\ LET bumped == (next_port + 1) % PortModulus
       IN  next_port' = IF bumped < DEFAULT_DIFIT_PORT THEN DEFAULT_DIFIT_PORT ELSE bumped
    /\ tl' = [tl EXCEPT ![t].result = next_port]
    /\ tpc' = [tpc EXCEPT ![t] = "ret"]
    /\ UNCHANGED <<processes, diff_hashes, lockHolder, lockSeq, children, windows, calls, exited>>
    /\ UNCHANGED <<storeVars, drainVars, writerVars, fed>>

\* difit.rs:114-123  register: HashMap::insert; a Child that was mapped before is
\* dropped, which neither kills nor reaps it
RunRegister(t) ==
    /\ tpc[t] = "run"
    /\ tl[t].op = "register"
    /\ processes' = MapInsert(processes, tl[t].key, CHOOSE p \in tl[t].child : TRUE)
    /\ tl' = [tl EXCEPT ![t].result = "unit"]
    /\ tpc' = [tpc EXCEPT ![t] = "ret"]
    /\ UNCHANGED <<diff_hashes, next_port, lockHolder, lockSeq, children, windows, calls, exited>>
    /\ UNCHANGED <<storeVars, drainVars, writerVars, fed>>

\* difit.rs:126-135  set_diff_hash
RunSetHash(t) ==
    /\ tpc[t] = "run"
    /\ tl[t].op = "set_diff_hash"
    /\ diff_hashes' = MapInsert(diff_hashes, tl[t].key, tl[t].hash)
    /\ tl' = [tl EXCEPT ![t].result = "unit"]
    /\ tpc' = [tpc EXCEPT ![t] = "ret"]
    /\ UNCHANGED <<processes, next_port, lockHolder, lockSeq, children, windows, calls, exited>>
    /\ UNCHANGED <<storeVars, drainVars, writerVars, fed>>

\* difit.rs:143-157  the match on previous_hash
cau_branch_without_equal_arm(previous_hash, new_hash) ==
    IF previous_hash # {} THEN "Changed" ELSE "NewEntry"
cau_branch(previous_hash, new_hash) ==
    IF previous_hash = {new_hash} THEN "Unchanged"
    ELSE IF previous_hash # {} THEN "Changed"
    ELSE "NewEntry"

\* difit.rs:142-144  compare_and_update_hash: look up the previous hash and branch
CauRead(t) ==
    /\ tpc[t] = "run"
    /\ tl[t].op = "compare_and_update_hash"
    /\ LET previous_hash == IF tl[t].key \in DOMAIN diff_hashes
                            THEN {diff_hashes[tl[t].key]} ELSE {}
           branch == cau_branch(previous_hash, tl[t].hash)
       IN  /\ tl' = [tl EXCEPT ![t].previous_hash = previous_hash,
                               ![t].result = IF branch = "Unchanged" THEN "Unchanged"
                                             ELSE "none"]
           /\ tpc' = [tpc EXCEPT ![t] = CASE branch = "Unchanged" -> "ret"
                                          [] branch = "Changed"   -> "cau_changed"
                                          [] OTHER                -> "cau_insert"]
    /\ UNCHANGED <<processes, diff_hashes, next_port, lockHolder, lockSeq, children,
                   windows, calls, exited>>
    /\ UNCHANGED <<storeVars, drainVars, writerVars, fed>>

\* difit.rs:147-150  the Changed arm: remove the registered child, kill it, reap it
CauKillKeepsEntry(t) ==
    /\ tpc[t] = "cau_changed"
    /\ IF tl[t].key \in DOMAIN processes
       THEN /\ children' = kill_and_wait(children, processes[tl[t].key])
            /\ tl' = [tl EXCEPT ![t].process = {processes[tl[t].key]}]
       ELSE UNCHANGED <<children, tl>>
    /\ tpc' = [tpc EXCEPT ![t] = "cau_insert"]
    /\ UNCHANGED <<processes, diff_hashes, next_port, lockHolder, lockSeq, windows, calls, exited>>
    /\ UNCHANGED <<storeVars, drainVars, writerVars, fed>>
CauKill(t) ==
    /\ tpc[t] = "cau_changed"
    /\ IF tl[t].key \in DOMAIN processes
       THEN /\ processes' = MapRemove(processes, tl[t].key)
            /\ children' = kill_and_wait(children, processes[tl[t].key])
            /\ tl' = [tl EXCEPT ![t].process = {processes[tl[t].key]}]
       ELSE UNCHANGED <<processes, children, tl>>
    /\ tpc' = [tpc EXCEPT ![t] = "cau_insert"]
    /\ UNCHANGED <<diff_hashes, next_port, lockHolder, lockSeq, windows, calls, exited>>
    /\ UNCHANGED <<storeVars, drainVars, writerVars, fed>>

\* difit.rs:151-152, 155-156  record the new hash; Changed, or NewEntry
CauInsert(t) ==
    /\ tpc[t] = "cau_insert"
    /\ diff_hashes' = MapInsert(diff_hashes, tl[t].key, tl[t].hash)
    /\ tl' = [tl EXCEPT ![t].result = IF tl[t].previous_hash = {} THEN "NewEntry"
                                      ELSE "Changed"]
    /\ tpc' = [tpc EXCEPT ![t] = "ret"]
    /\ UNCHANGED <<processes, next_port, lockHolder, lockSeq, children, windows, calls, exited>>
    /\ UNCHANGED <<storeVars, drainVars, writerVars, fed>>

\* difit.rs:169-182  kill
RunKillKeepsHash(t) ==
    /\ tpc[t] = "run"
    /\ tl[t].op = "kill"
    /\ IF tl[t].key \in DOMAIN processes
       THEN /\ processes' = MapRemove(processes, tl[t].key)
            /\ children' = kill_and_wait(children, processes[tl[t].key])
            /\ tl' = [tl EXCEPT ![t].process = {processes[tl[t].key]},
                                ![t].result = "unit"]
       ELSE /\ UNCHANGED <<processes, children>>
            /\ tl' = [tl EXCEPT ![t].result = "unit"]
    /\ tpc' = [tpc EXCEPT ![t] = "ret"]
    /\ UNCHANGED <<diff_hashes, next_port, lockHolder, lockSeq, windows, calls, exited>>
    /\ UNCHANGED <<storeVars, drainVars, writerVars, fed>>
RunKill(t) ==
    /\ tpc[t] = "run"
    /\ tl[t].op = "kill"
    /\ IF tl[t].key \in DOMAIN processes
       THEN /\ processes' = MapRemove(processes, tl[t].key)
            /\ children' = kill_and_wait(children, processes[tl[t].key])
            /\ tl' = [tl EXCEPT ![t].process = {processes[tl[t].key]},
                                ![t].result = "unit"]
       ELSE /\ UNCHANGED <<processes, children>>
            /\ tl' = [tl EXCEPT ![t].result = "unit"]
    /\ diff_hashes' = MapRemove(diff_hashes, tl[t].key)
    /\ tpc' = [tpc EXCEPT ![t] = "ret"]
    /\ UNCHANGED <<next_port, lockHolder, lockSeq, windows, calls, exited>>
    /\ UNCHANGED <<storeVars, drainVars, writerVars, fed>>

\* difit.rs:185-198  kill_all, also as the Exit handler calls it (main.rs:390-394)
RunKillAll(t) ==
    /\ tpc[t] = "run"
    /\ tl[t].op \in {"kill_all", "exit"}
    /\ children' = [p \in DOMAIN children |->
                       IF \E k \in DOMAIN processes : processes[k] = p
                       THEN kill_and_wait(children, p)[p]
                       ELSE children[p]]
    /\ processes' = EmptyMap
    /\ diff_hashes' = EmptyMap
    /\ tl' = [tl EXCEPT ![t].result = "unit"]
    /\ tpc' = [tpc EXCEPT ![t] = "ret"]
    /\ UNCHANGED <<next_port, lockHolder, lockSeq, windows, calls, exited>>
    /\ UNCHANGED <<storeVars, drainVars, writerVars, fed>>

\* the guard is dropped when the method returns; open_diff goes on to build its
\* window, and the application is gone once the Exit handler has returned
Return(t) ==
    /\ tpc[t] = "ret"
    /\ lockHolder' = "none"
    /\ tpc' = [tpc EXCEPT ![t] = IF tl[t].op = "open_diff" THEN "od_window" ELSE "idle"]
    /\ exited' = (tl[t].op = "exit")
    /\ UNCHANGED <<processes, diff_hashes, next_port, lockSeq, tl, children, windows, calls>>
    /\ UNCHANGED <<storeVars, drainVars, writerVars, fed>>


----------------------------------------------------------------------------
(* Callers of the registry.  compare_and_update_hash and set_diff_hash have *)
(* no caller in the sources: worker threads call the methods with any       *)
(* arguments (a register call hands over a child its caller has spawned).   *)

CallCompare(t) ==
    /\ tpc[t] = "idle" /\ calls < MaxCalls
    /\ \E k \in Keys, h \in Hashes :
          tl' = [tl EXCEPT ![t] = NewCall("compare_and_update_hash", k, h, {})]
    /\ tpc' = [tpc EXCEPT ![t] = "lock"]
    /\ calls' = calls + 1
    /\ UNCHANGED <<processes, diff_hashes, next_port, lockHolder, lockSeq, children, windows, exited>>
    /\ UNCHANGED <<storeVars, drainVars, writerVars, fed>>

CallRegister(t) ==
    /\ tpc[t] = "idle" /\ calls < MaxCalls
    /\ \E k \in Keys :
          /\ children' = Spawned(k)
          /\ tl' = [tl EXCEPT ![t] = NewCall("register", k, 0, {Len(children) + 1})]
    /\ tpc' = [tpc EXCEPT ![t] = "lock"]
    /\ calls' = calls + 1
    /\ UNCHANGED <<processes, diff_hashes, next_port, lockHolder, lockSeq, windows, exited>>
    /\ UNCHANGED <<storeVars, drainVars, writerVars, fed>>

CallSetHash(t) ==
    /\ tpc[t] = "idle" /\ calls < MaxCalls
    /\ \E k \in Keys, h \in Hashes :
          tl' = [tl EXCEPT ![t] = NewCall("set_diff_hash", k, h, {})]
    /\ tpc' = [tpc EXCEPT ![t] = "lock"]
    /\ calls' = calls + 1
    /\ UNCHANGED <<processes, diff_hashes, next_port, lockHolder, lockSeq, children, windows, exited>>
    /\ UNCHANGED <<storeVars, drainVars, writerVars, fed>>

CallKill(t) ==
    /\ tpc[t] = "idle" /\ calls < MaxCalls
    /\ \E k \in Keys : tl' = [tl EXCEPT ![t] = NewCall("kill", k, 0, {})]
    /\ tpc' = [tpc EXCEPT ![t] = "lock"]
    /\ calls' = calls + 1
    /\ UNCHANGED <<processes, diff_hashes, next_port, lockHolder, lockSeq, children, windows, exited>>
    /\ UNCHANGED <<storeVars, drainVars, writerVars, fed>>

CallGetPort(t) ==
    /\ tpc[t] = "idle" /\ calls < MaxCalls
    /\ tl' = [tl EXCEPT ![t] = NewCall("get_next_port", "", 0, {})]
    /\ tpc' = [tpc EXCEPT ![t] = "lock"]
    /\ calls' = calls + 1
    /\ UNCHANGED <<processes, diff_hashes, next_port, lockHolder, lockSeq, children, windows, exited>>
    /\ UNCHANGED <<storeVars, drainVars, writerVars, fed>>

CallKillAll(t) ==
    /\ tpc[t] = "idle" /\ calls < MaxCalls
    /\ tl' = [tl EXCEPT ![t] = NewCall("kill_all", "", 0, {})]
    /\ tpc' = [tpc EXCEPT ![t] = "lock"]
    /\ calls' = calls + 1
    /\ UNCHANGED <<processes, diff_hashes, next_port, lockHolder, lockSeq, children, windows, exited>>
    /\ UNCHANGED <<storeVars, drainVars, writerVars, fed>>

----------------------------------------------------------------------------
(* commands.rs: open_diff, its background thread and its window's Destroyed *)
(* handler; main.rs: the Exit handler.  Commands and window events run on   *)
(* the main thread, one at a time.                                          *)

\* commands.rs:199-217  no window has the label: take a port
OpenDiff ==
    /\ ~exited
    /\ tpc["main"] = "idle" /\ calls < MaxRequests
    /\ \E w \in Workers : tpc[w] = "idle"
    /\ \E k \in Keys :
          /\ k \notin windows
          /\ tl' = [tl EXCEPT !["main"] = NewCall("open_diff", k, 0, {})]
    /\ tpc' = [tpc EXCEPT !["main"] = "lock"]
    /\ calls' = calls + 1
    /\ UNCHANGED <<processes, diff_hashes, next_port, lockHolder, lockSeq, children, windows, exited>>
    /\ UNCHANGED <<storeVars, drainVars, writerVars, fed>>

\* commands.rs:226-295  build the window, set its Destroyed handler, start the thread
OdWindow ==
    /\ tpc["main"] = "od_window"
    /\ windows' = windows \cup {tl["main"].key}
    /\ \E w \in Workers :
          /\ tpc[w] = "idle"
          /\ tpc' = [tpc EXCEPT !["main"] = "idle", ![w] = "start"]
          /\ tl' = [tl EXCEPT ![w] = NewCall("register", tl["main"].key, 0, {})]
    /\ UNCHANGED <<processes, diff_hashes, next_port, lockHolder, lockSeq, children, calls, exited>>
    /\ UNCHANGED <<storeVars, drainVars, writerVars, fed>>

\* commands.rs:253-256  start_difit_server returns Ok: the child runs; register it
BgStartOk(t) ==
    /\ ~exited
    /\ tpc[t] = "start"
    /\ children' = Spawned(tl[t].key)
    /\ tl' = [tl EXCEPT ![t].child = {Len(children) + 1}]
    /\ tpc' = [tpc EXCEPT ![t] = "lock"]
    /\ UNCHANGED <<processes, diff_hashes, next_port, lockHolder, lockSeq, windows, calls, exited>>
    /\ UNCHANGED <<storeVars, drainVars, writerVars, fed>>

\* commands.rs:266-291  start_difit_server returns Err: show the error page
BgStartErr(t) ==
    /\ ~exited
    /\ tpc[t] = "start"
    /\ tl' = [tl EXCEPT ![t].result = "Err"]
    /\ tpc' = [tpc EXCEPT ![t] = "idle"]
    /\ UNCHANGED <<processes, diff_hashes, next_port, lockHolder, lockSeq, children, windows, calls, exited>>
    /\ UNCHANGED <<storeVars, drainVars, writerVars, fed>>

\* commands.rs:240-244  WindowEvent::Destroyed: registry.kill(label)
WindowDestroyed ==
    /\ ~exited
    /\ tpc["main"] = "idle"
    /\ \E k \in windows :
          /\ windows' = windows \ {k}
          /\ tl' = [tl EXCEPT !["main"] = NewCall("kill", k, 0, {})]
    /\ tpc' = [tpc EXCEPT !["main"] = "lock"]
    /\ UNCHANGED <<processes, diff_hashes, next_port, lockHolder, lockSeq, children, calls, exited>>
    /\ UNCHANGED <<storeVars, drainVars, writerVars, fed>>

\* main.rs:390-394  RunEvent::Exit: difit_registry.kill_all()
AppExit ==
    /\ ~exited
    /\ tpc["main"] = "idle"
    /\ tl' = [tl EXCEPT !["main"] = NewCall("exit", "", 0, {})]
    /\ tpc' = [tpc EXCEPT !["main"] = "lock"]
    /\ UNCHANGED <<processes, diff_hashes, next_port, lockHolder, lockSeq, children, windows, calls, exited>>
    /\ UNCHANGED <<storeVars, drainVars, writerVars, fed>>

----------------------------------------------------------------------------
(* main.rs: the threads that take the Session Store's Mutex *)

StoreThreads == {"setup", "watcher", "cmd"}

----------------------------------------------------------------------------
(* claude-monitor-tauri main.rs: the seek-based reader of the log *)

\* main.rs:312  BufRead::lines() splits at the byte '\n'; a line of the log
\* is one byte that numbers the event, followed by '\n'
Newline == 0

NoSeek == [exists |-> FALSE, bytes |-> <<>>, pc |-> "idle", size |-> 0,
           start |-> 0, rd |-> 0, shrunk |-> FALSE, appended |-> 0, truncated |-> 0]

\* the event name of the n-th line the hook writes
LegacyTag(n) ==
    CASE n = 1 -> "session_start"
      [] n = 2 -> "notification"
      [] n = 3 -> "stop"
      [] n = 4 -> "post_tool_use"
      [] OTHER -> "session_end"

\* main.rs:20-32 + 314  serde_json::from_str::<EventInfo>(&line)
legacy_parse(line) ==
    IF Len(line) = 1 /\ line[1] > Newline
    THEN [ok |-> TRUE,
          event |-> [timestamp |-> line[1], event |-> LegacyTag(line[1]), matcher |-> "",
                     project_name |-> "a", project_dir |-> "/a", session_id |-> line[1],
                     message |-> "", notification_type |-> "permission_prompt",
                     tool_name |-> "Bash"]]
    ELSE [ok |-> FALSE]

\* main.rs:237-250, 253-266, 269-282  entry(key).and_modify(..).or_insert_with(..)
legacy_upsert(sess, key, event, status, waiting_for) ==
    IF key \in DOMAIN sess
    THEN [sess EXCEPT ![key] = [@ EXCEPT !.status = status,
                                         !.last_event = event.timestamp,
                                         !.waiting_for = waiting_for]]
    ELSE MapInsert(sess, key,
                   [project_name |-> event.project_name,
                    project_dir  |-> event.project_dir,
                    status       |-> status,
                    last_event   |-> event.timestamp,
                    waiting_for  |-> waiting_for])

\* main.rs:202-289  the session map after process_event
legacy_apply(sess, event) ==
    LET key == IF event.project_dir = "" THEN event.project_name ELSE event.project_dir
        new_status == CASE event.notification_type = "permission_prompt" -> "WaitingPermission"
                        [] event.notification_type = "idle_prompt"       -> "WaitingInput"
                        [] OTHER                                         -> "Active"
        legacy_waiting_info == IF event.message # "" THEN event.message
                        ELSE IF event.tool_name # "" THEN event.tool_name
                        ELSE ""
    IN  CASE event.event = "session_start" ->
                 MapInsert(sess, key,
                           [project_name |-> event.project_name,
                            project_dir  |-> event.project_dir,
                            status       |-> "Active",
                            last_event   |-> event.timestamp,
                            waiting_for  |-> ""])
          [] event.event = "session_end"   -> MapRemove(sess, key)
          [] event.event = "notification"  -> legacy_upsert(sess, key, event, new_status, legacy_waiting_info)
          [] event.event = "stop"          -> legacy_upsert(sess, key, event, "Completed", "")
          [] event.event = "post_tool_use" -> legacy_upsert(sess, key, event, "Active", "")
          [] OTHER -> IF key \in DOMAIN sess
                      THEN [sess EXCEPT ![key].last_event = event.timestamp]
                      ELSE sess

\* main.rs:197-200  push, then remove(0) once the length exceeds 50
legacy_push_recent(re, event) ==
    LET r == Append(re, event)
    IN  IF Len(r) > RecentCap THEN Tail(r) ELSE r

\* main.rs:304-306  `if file_size < state.last_file_pos { state.last_file_pos = 0; }`
offset_after_size_check_keeps_offset(file_size, pos) == pos
offset_after_size_check(file_size, pos) ==
    IF file_size < pos THEN 0 ELSE pos

\* main.rs:312  the offset just after the line that starts at offset rd: after
\* its '\n', or the end of the file when no '\n' follows
LineEnd(bytes, rd) ==
    LET nls == {j \in (rd + 1)..Len(bytes) : bytes[j] = Newline}
    IN  IF nls = {} THEN Len(bytes)
        ELSE CHOOSE j \in nls : \A k \in nls : j <= k

\* main.rs:312  the line that starts at offset rd, without its '\n'
LineAt(bytes, rd) ==
    LET e == LineEnd(bytes, rd)
    IN  IF bytes[e] = Newline THEN SubSeq(bytes, rd + 1, e - 1)
        ELSE SubSeq(bytes, rd + 1, e)


----------------------------------------------------------------------------
(* difit.rs: one call of start_difit_server *)

\* no call has been made yet; result is the port of an Ok return, failed
\* tells an Err return
NoStart ==
    [pc |-> "idle", port |-> 0, todo |-> 0, pipe |-> 0, child |-> "none",
     emitted |-> 0, marker |-> <<0, 0>>, nread |-> 0, reader |-> "off",
     chan |-> {}, result |-> {}, failed |-> FALSE]

\* difit.rs:297-323  the call: a requested port, a diff of some length, and
\* cmd.spawn() succeeds
SdSpawn ==
    /\ sd.pc = "idle"
    /\ \E port \in {DEFAULT_DIFIT_PORT, DEFAULT_DIFIT_PORT + 1}, n \in 1..MaxDiff :
          sd' = [NoStart EXCEPT !.pc = "write", !.port = port, !.todo = n,
                                !.child = "running"]
    /\ UNCHANGED <<requests, seek, lockVars, storeVars, drainVars, writerVars, fed, regVars>>

\* difit.rs:321-323  cmd.spawn() fails: Err, and there is no child
SdSpawnFails ==
    /\ sd.pc = "idle"
    /\ sd' = [NoStart EXCEPT !.pc = "returned", !.failed = TRUE]
    /\ UNCHANGED <<requests, seek, lockVars, storeVars, drainVars, writerVars, fed, regVars>>

\* difit.rs:331-333  stdin.write_all(&diff_content): a blocking write moves the
\* next part of the diff into the pipe when the pipe has room
SdWrite ==
    /\ sd.pc = "write"
    /\ sd.todo > 0
    /\ sd.child = "running"
    /\ sd.pipe < PipeCap
    /\ sd' = [sd EXCEPT !.todo = @ - 1, !.pipe = @ + 1]
    /\ UNCHANGED <<requests, seek, lockVars, storeVars, drainVars, writerVars, fed, regVars>>

\* difit.rs:331-333  the write fails (the child has gone: broken pipe): Err
SdWriteErr ==
    /\ sd.pc = "write"
    /\ sd.todo > 0
    /\ sd.child = "exited"
    /\ sd' = [sd EXCEPT !.pc = "returned", !.failed = TRUE]
    /\ UNCHANGED <<requests, seek, lockVars, storeVars, drainVars, writerVars, fed, regVars>>

\* difit.rs:334-364  everything is written: stdin is closed, and the thread
\* that reads the child's stderr is started
SdWriteDone ==
    /\ sd.pc = "write"
    /\ sd.todo = 0
    /\ sd' = [sd EXCEPT !.pc = "wait", !.reader = "reading"]
    /\ UNCHANGED <<requests, seek, lockVars, storeVars, drainVars, writerVars, fed, regVars>>

\* the child reads part of its stdin
ChildRead ==
    /\ sd.child = "running"
    /\ sd.pipe > 0
    /\ sd' = [sd EXCEPT !.pipe = @ - 1]
    /\ UNCHANGED <<requests, seek, lockVars, storeVars, drainVars, writerVars, fed, regVars>>

\* the child writes a line to its stderr: the start marker with a port, or
\* any other line; marker keeps the first marker line's number and port
ChildLine ==
    /\ sd.child = "running"
    /\ sd.emitted < MaxStderr
    /\ \E q \in {0, DEFAULT_DIFIT_PORT, DEFAULT_DIFIT_PORT + 1} :
          sd' = [sd EXCEPT !.emitted = @ + 1,
                           !.marker = IF q # 0 /\ sd.marker[1] = 0
                                      THEN <<sd.emitted + 1, q>> ELSE @]
    /\ UNCHANGED <<requests, seek, lockVars, storeVars, drainVars, writerVars, fed, regVars>>

\* the child exits: its ends of the pipes are closed
ChildExit ==
    /\ sd.child = "running"
    /\ sd' = [sd EXCEPT !.child = "exited"]
    /\ UNCHANGED <<requests, seek, lockVars, storeVars, drainVars, writerVars, fed, regVars>>

\* difit.rs:347-360  reader.lines().take(10): the next line; the marker's port
\* is sent and the thread returns
ReaderLine ==
    /\ sd.reader = "reading"
    /\ sd.nread < sd.emitted
    /\ sd.nread < TakeLines
    /\ IF sd.marker[1] = sd.nread + 1
       THEN sd' = [sd EXCEPT !.nread = @ + 1, !.chan = {sd.marker[2]},
                             !.reader = "sent"]
       ELSE sd' = [sd EXCEPT !.nread = @ + 1]
    /\ UNCHANGED <<requests, seek, lockVars, storeVars, drainVars, writerVars, fed, regVars>>

\* difit.rs:362-363  ten lines, or the end of stderr, without the marker:
\* the requested port is sent
ReaderEnd ==
    /\ sd.reader = "reading"
    /\ sd.nread = TakeLines \/ (sd.child = "exited" /\ sd.nread = sd.emitted)
    /\ sd' = [sd EXCEPT !.chan = {sd.port}, !.reader = "sent"]
    /\ UNCHANGED <<requests, seek, lockVars, storeVars, drainVars, writerVars, fed, regVars>>

\* difit.rs:367  rx.recv_timeout(5 s) returns the port that was sent
SdRecv ==
    /\ sd.pc = "wait"
    /\ sd.chan # {}
    /\ sd' = [sd EXCEPT !.pc = "returned", !.result = sd.chan]
    /\ UNCHANGED <<requests, seek, lockVars, storeVars, drainVars, writerVars, fed, regVars>>

\* difit.rs:367  rx.recv_timeout(5 s) times out: unwrap_or(port)
SdTimeout ==
    /\ sd.pc = "wait"
    /\ sd.chan = {}
    /\ sd' = [sd EXCEPT !.pc = "returned", !.result = {sd.port}]
    /\ UNCHANGED <<requests, seek, lockVars, storeVars, drainVars, writerVars, fed, regVars>>

\* the steps of the call and of its reader thread
SdStep ==
    \/ SdWrite
    \/ SdWriteErr
    \/ SdWriteDone
    \/ ReaderLine
    \/ ReaderEnd
    \/ SdRecv
    \/ SdTimeout

----------------------------------------------------------------------------
(* Specifications *)

\* state.rs:179-188 AppState::default(); setup.rs:511-516 creates the empty log
InitExceptPort ==
    /\ sessions = EmptyMap
    /\ recent_events = <<>>
    /\ last_file_pos = 0
    /\ logFile = EmptyFile
    /\ procFile = NoFile
    /\ dpc = "idle"
    /\ rdpos = 0
    /\ new_events = <<>>
    /\ held = <<>>
    /\ leftovers = {}
    /\ wfd = "closed"
    /\ written = <<>>
    /\ fed = 0
    /\ processes = EmptyMap
    /\ diff_hashes = EmptyMap
    /\ lockHolder = "none"
    /\ lockSeq = 0
    /\ tpc = [t \in Threads |-> "idle"]
    /\ tl = [t \in Threads |-> NoCall]
    /\ children = <<>>
    /\ windows = {}
    /\ calls = 0
    /\ exited = FALSE
    /\ stateLock = "none"
    /\ spc = [t \in StoreThreads |-> IF t = "setup" THEN "lock" ELSE IF t = "watcher" THEN "off" ELSE "idle"]
    /\ notified = 0
    /\ sd = NoStart
    /\ requests = {}
    /\ seek = NoSeek

\* difit.rs:85-93  DifitProcessRegistry::new(): next_port starts at DEFAULT_DIFIT_PORT
Init ==
    /\ InitExceptPort
    /\ next_port = DEFAULT_DIFIT_PORT

\* the hook appends only between drain calls
NextSeq ==
    \/ wfd = "closed" /\ DrainNothing /\ UNCHANGED auxVars
    \/ wfd = "closed" /\ DrainBegin /\ UNCHANGED auxVars
    \/ wfd = "closed" /\ DrainRename /\ UNCHANGED auxVars
    \/ wfd = "closed" /\ DrainRenameFails /\ UNCHANGED auxVars
    \/ wfd = "closed" /\ DrainRecreate /\ UNCHANGED auxVars
    \/ wfd = "closed" /\ DrainRecreateFails /\ UNCHANGED auxVars
    \/ wfd = "closed" /\ DrainOpen /\ UNCHANGED auxVars
    \/ wfd = "closed" /\ DrainReadLine /\ UNCHANGED auxVars
    \/ wfd = "closed" /\ DrainReadEof /\ UNCHANGED auxVars
    \/ wfd = "closed" /\ DrainDelete /\ UNCHANGED auxVars
    \/ dpc = "idle" /\ HookOpen /\ UNCHANGED auxVars
    \/ dpc = "idle" /\ HookWrite /\ UNCHANGED auxVars

\* the hook appends at any moment
NextConc ==
    \/ DrainNothing /\ UNCHANGED auxVars
    \/ DrainBegin /\ UNCHANGED auxVars
    \/ DrainRename /\ UNCHANGED auxVars
    \/ DrainRenameFails /\ UNCHANGED auxVars
    \/ DrainRecreate /\ UNCHANGED auxVars
    \/ DrainRecreateFails /\ UNCHANGED auxVars
    \/ DrainOpen /\ UNCHANGED auxVars
    \/ DrainReadLine /\ UNCHANGED auxVars
    \/ DrainReadEof /\ UNCHANGED auxVars
    \/ DrainDelete /\ UNCHANGED auxVars
    \/ HookOpen /\ UNCHANGED auxVars
    \/ HookWrite /\ UNCHANGED auxVars

SpecSeq == Init /\ [][NextSeq]_vars

\* the hook appends at any moment, lines may be malformed, and the delete of
\* the sibling file may fail
NextFaults ==
    \/ DrainNothing /\ UNCHANGED auxVars
    \/ DrainBegin /\ UNCHANGED auxVars
    \/ DrainRename /\ UNCHANGED auxVars
    \/ DrainRenameOver /\ UNCHANGED auxVars
    \/ DrainRenameFails /\ UNCHANGED auxVars
    \/ DrainRecreate /\ UNCHANGED auxVars
    \/ DrainRecreateFails /\ UNCHANGED auxVars
    \/ DrainOpen /\ UNCHANGED auxVars
    \/ DrainReadLine /\ UNCHANGED auxVars
    \/ DrainReadEof /\ UNCHANGED auxVars
    \/ DrainDelete /\ UNCHANGED auxVars
    \/ DrainDeleteFails /\ UNCHANGED auxVars
    \/ HookOpen /\ UNCHANGED auxVars
    \/ HookWrite /\ UNCHANGED auxVars
    \/ HookWriteMalformed /\ UNCHANGED auxVars

SpecFaults == Init /\ [][NextFaults]_vars
SpecConc == Init /\ [][NextConc]_vars
SpecEvents == Init /\ [][Feed /\ UNCHANGED auxVars]_vars
SpecRecent == Init /\ [][FeedSerial /\ UNCHANGED auxVars]_vars

\* worker threads calling the registry's methods
NextRegistry ==
    \E t \in Workers :
        \/ CallCompare(t) /\ UNCHANGED auxVars
        \/ CallRegister(t) /\ UNCHANGED auxVars
        \/ CallSetHash(t) /\ UNCHANGED auxVars
        \/ CallKill(t) /\ UNCHANGED auxVars
        \/ CallKillAll(t) /\ UNCHANGED auxVars
        \/ Lock(t) /\ UNCHANGED auxVars
        \/ RunRegister(t) /\ UNCHANGED auxVars
        \/ RunSetHash(t) /\ UNCHANGED auxVars
        \/ CauRead(t) /\ UNCHANGED auxVars
        \/ CauKill(t) /\ UNCHANGED auxVars
        \/ CauInsert(t) /\ UNCHANGED auxVars
        \/ RunKill(t) /\ UNCHANGED auxVars
        \/ RunKillAll(t) /\ UNCHANGED auxVars
        \/ Return(t) /\ UNCHANGED auxVars

\* the application's own use of the registry
NextDiff ==
    \/ OpenDiff /\ UNCHANGED auxVars
    \/ OdWindow /\ UNCHANGED auxVars
    \/ WindowDestroyed /\ UNCHANGED auxVars
    \/ AppExit /\ UNCHANGED auxVars
    \/ \E t \in Workers : BgStartOk(t) /\ UNCHANGED auxVars
    \/ \E t \in Workers : BgStartErr(t) /\ UNCHANGED auxVars
    \/ \E t \in Threads : Lock(t) /\ UNCHANGED auxVars
    \/ \E t \in Threads : RunGetPort(t) /\ UNCHANGED auxVars
    \/ \E t \in Threads : RunRegister(t) /\ UNCHANGED auxVars
    \/ \E t \in Threads : RunKill(t) /\ UNCHANGED auxVars
    \/ \E t \in Threads : RunKillAll(t) /\ UNCHANGED auxVars
    \/ \E t \in Threads : Return(t) /\ UNCHANGED auxVars

SpecRegistry == Init /\ [][NextRegistry]_vars
SpecDiff == Init /\ [][NextDiff]_vars

----------------------------------------------------------------------------
(* Properties of the drain (SpecSeq, SpecConc) *)

\* the session_id of each record of a sequence
Ids(seq) == [i \in 1..Len(seq) |-> seq[i].session_id]
\* the lines of a sequence that parse as an EventInfo
WellFormed(lines) == SelectSeq(lines, LAMBDA l : parse_line(l).ok)
\* the lines of the sibling file the current drain has still to read
Unread ==
    CASE dpc \in {"recreate", "open"} -> procFile.lines
      [] dpc = "read" -> SubSeq(procFile.lines, rdpos + 1, Len(procFile.lines))
      [] OTHER -> <<>>
\* the Session Store that applying the events of a sequence in order gives
RECURSIVE Replay(_)
Replay(events) ==
    IF events = <<>> THEN EmptyMap
    ELSE apply_to_sessions(Replay(SubSeq(events, 1, Len(events) - 1)),
                           events[Len(events)])

NoLineLostOrDuplicated ==
    (dpc = "idle" /\ wfd = "closed") =>
        Ids(recent_events) \o Ids(WellFormed(logFile.lines)) = Ids(WellFormed(written))

\* C3: events are applied in the order the hook wrote them: of two applied
\* events, the one written first comes first in RecentEvents, and the Session
\* Store is the result of applying them in that order.
AppliedInLogOrder ==
    /\ \A i, j \in 1..Len(recent_events) :
          i < j => recent_events[i].session_id < recent_events[j].session_id
    /\ sessions = Replay(recent_events)

\* C3 witness: two events applied in log order, in different drain cycles,
\* against the order of their timestamps
AppliedAgainstTimestamps ==
    /\ dpc = "idle"
    /\ Len(recent_events) >= 2
    /\ Len(new_events) = 1
    /\ recent_events[1].timestamp > recent_events[2].timestamp

\* C16: a drain call that finds events.jsonl absent or of length zero returns
\* at once with the empty Vec, and changes neither the Session Store nor
\* RecentEvents nor any file.
EmptyLogDrainIsNoOp ==
    [][(/\ dpc = "idle"
        /\ ~logFile.exists \/ logFile.lines = <<>>
        /\ UNCHANGED <<wfd, written>>)
       => /\ dpc' = "idle"
          /\ new_events' = <<>>
          /\ sessions' = sessions
          /\ recent_events' = recent_events
          /\ logFile' = logFile
          /\ procFile' = procFile
      ]_vars

\* C16 witness: after a drain that applied events, a drain of the absent or
\* empty log has returned the empty Vec
EmptyLogDrained ==
    /\ dpc = "idle"
    /\ ~logFile.exists \/ logFile.lines = <<>>
    /\ new_events = <<>>
    /\ recent_events # <<>>

GainsOnlyFreshLines(before, after) ==
    \A i \in 1..Len(after) :
        \/ \E j \in 1..Len(before) : before[j] = after[i]
        \/ written' # written /\ after[i] = written'[Len(written')]

DeleteFailureNotReplayed ==
    /\ [](/\ \A i, j \in 1..Len(recent_events) :
                i # j => recent_events[i].session_id # recent_events[j].session_id
          /\ \A f \in leftovers : \A i \in 1..Len(f) :
                /\ \A j \in 1..Len(logFile.lines) : logFile.lines[j] # f[i]
                /\ \A j \in 1..Len(Unread) : Unread[j] # f[i])
    /\ [][(dpc = "delete" /\ dpc' = "idle" /\ leftovers' # leftovers)
          => /\ new_events' = new_events
             /\ Ids(new_events') = Ids(WellFormed(SubSeq(procFile.lines, 1, rdpos)))
             /\ sessions' = sessions
             /\ recent_events' = recent_events
             /\ logFile' = logFile
         ]_vars

\* C19 witness: a sibling file whose lines were applied was left behind, and a
\* later drain has returned other events
LaterDrainAfterLeftover ==
    /\ dpc = "idle"
    /\ new_events # <<>>
    /\ \E f \in leftovers :
          /\ WellFormed(f) # <<>>
          /\ \A i \in 1..Len(f) : \A j \in 1..Len(new_events) :
                f[i].session_id # new_events[j].session_id
          /\ \A i \in 1..Len(WellFormed(f)) :
                \E j \in 1..Len(recent_events) :
                    recent_events[j].session_id = WellFormed(f)[i].session_id

----------------------------------------------------------------------------
(* Properties of process_event (SpecEvents) *)

LastEvent == recent_events[Len(recent_events)]

\* C8: after a SessionStart event the store holds, at the event's key, an
\* entry that is Active with empty waiting_for, the event's timestamp and the
\* event's project_name and project_dir, whatever was there before.
SessionStartOverwrites ==
    (recent_events # <<>> /\ LastEvent.event_type = "SessionStart") =>
        LET k == IF LastEvent.project_dir # "" THEN LastEvent.project_dir
                 ELSE LastEvent.project_name
        IN  /\ k \in DOMAIN sessions
            /\ sessions[k].status = "Active"
            /\ sessions[k].waiting_for = ""
            /\ sessions[k].last_event = LastEvent.timestamp
            /\ sessions[k].project_name = LastEvent.project_name
            /\ sessions[k].project_dir = LastEvent.project_dir

\* C8 witness: a SessionStart applied over a waiting entry of another project_name
SessionStartOverWaiting ==
    /\ Len(recent_events) = 2
    /\ recent_events[2].event_type = "SessionStart"
    /\ recent_events[1].event_type = "Notification"
    /\ recent_events[1].notification_type = "PermissionPrompt"
    /\ recent_events[1].message # ""
    /\ recent_events[1].project_dir = "/a"
    /\ recent_events[2].project_dir = "/a"
    /\ recent_events[1].project_name # recent_events[2].project_name
    /\ recent_events[1].timestamp # recent_events[2].timestamp

\* C9: after a SessionEnd event the event's key is absent from the store; and
\* a SessionEnd applied to the empty store leaves it empty.
SessionEndRemoves ==
    (recent_events # <<>> /\ LastEvent.event_type = "SessionEnd") =>
        LET k == IF LastEvent.project_dir # "" THEN LastEvent.project_dir
                 ELSE LastEvent.project_name
        IN  /\ k \notin DOMAIN sessions
            /\ Len(recent_events) = 1 => sessions = EmptyMap

\* C9 witness: a SessionEnd applied to a store that held an entry at its key
SessionEndOverEntry ==
    /\ Len(recent_events) = 2
    /\ recent_events[2].event_type = "SessionEnd"
    /\ recent_events[1].event_type \in {"SessionStart", "Stop", "Notification"}
    /\ recent_events[1].project_dir = "/a"
    /\ recent_events[2].project_dir = "/a"
    /\ sessions = EmptyMap

\* C10: after a Notification event the entry at the event's key exists, and its
\* status is WaitingPermission for PermissionPrompt, WaitingInput for IdlePrompt
\* and Active for Other.
NotificationSetsStatus ==
    (recent_events # <<>> /\ LastEvent.event_type = "Notification") =>
        LET k == IF LastEvent.project_dir # "" THEN LastEvent.project_dir
                 ELSE LastEvent.project_name
        IN  /\ k \in DOMAIN sessions
            /\ LastEvent.notification_type = "PermissionPrompt" =>
                  sessions[k].status = "WaitingPermission"
            /\ LastEvent.notification_type = "IdlePrompt" =>
                  sessions[k].status = "WaitingInput"
            /\ LastEvent.notification_type = "Other" =>
                  sessions[k].status = "Active"

\* C10 witness: a PermissionPrompt notification applied over a Completed entry
NotificationOverCompleted ==
    /\ Len(recent_events) = 2
    /\ recent_events[1].event_type = "Stop"
    /\ recent_events[2].event_type = "Notification"
    /\ recent_events[2].notification_type = "PermissionPrompt"
    /\ event_key(recent_events[1]) = event_key(recent_events[2])
    /\ sessions[event_key(recent_events[2])].status = "WaitingPermission"

\* C11: after a Notification event the entry's waiting_for is the event's
\* message when that is non-empty, otherwise its tool_name when that is
\* non-empty, otherwise the empty string; with both non-empty the message wins.
NotificationSetsWaitingFor ==
    (recent_events # <<>> /\ LastEvent.event_type = "Notification") =>
        LET k == IF LastEvent.project_dir # "" THEN LastEvent.project_dir
                 ELSE LastEvent.project_name
        IN  /\ k \in DOMAIN sessions
            /\ LastEvent.message # "" => sessions[k].waiting_for = LastEvent.message
            /\ (LastEvent.message = "" /\ LastEvent.tool_name # "") =>
                  sessions[k].waiting_for = LastEvent.tool_name
            /\ (LastEvent.message = "" /\ LastEvent.tool_name = "") =>
                  sessions[k].waiting_for = ""

\* C11 witness: a Notification with both message and tool_name non-empty has
\* been applied, and the entry waits for the message
MessageWinsOverToolName ==
    /\ recent_events # <<>>
    /\ LastEvent.event_type = "Notification"
    /\ LastEvent.message = "msg"
    /\ LastEvent.tool_name = "tool"
    /\ event_key(LastEvent) \in DOMAIN sessions
    /\ sessions[event_key(LastEvent)].waiting_for = "msg"

\* C12: after a Stop, PostToolUse or UserPromptSubmit event the entry at the
\* event's key exists, its status is Completed for Stop and Active for the other
\* two, and its waiting_for is empty, whatever the entry was before.
StopAndActivityUpsert ==
    (recent_events # <<>>
        /\ LastEvent.event_type \in {"Stop", "PostToolUse", "UserPromptSubmit"}) =>
        LET k == IF LastEvent.project_dir # "" THEN LastEvent.project_dir
                 ELSE LastEvent.project_name
        IN  /\ k \in DOMAIN sessions
            /\ sessions[k].status = IF LastEvent.event_type = "Stop" THEN "Completed"
                                    ELSE "Active"
            /\ sessions[k].waiting_for = ""

\* C12 witness: a Stop applied over an entry that was waiting for a permission
\* with a non-empty waiting_for
StopOverWaiting ==
    /\ Len(recent_events) = 2
    /\ recent_events[1].event_type = "Notification"
    /\ recent_events[1].notification_type = "PermissionPrompt"
    /\ recent_events[1].message # ""
    /\ recent_events[2].event_type = "Stop"
    /\ event_key(recent_events[1]) = event_key(recent_events[2])
    /\ sessions[event_key(recent_events[2])].status = "Completed"

\* the event a step of process_event has applied, and its key
Applied == recent_events'[Len(recent_events')]
AppliedKey == IF Applied.project_dir # "" THEN Applied.project_dir
              ELSE Applied.project_name

\* C13: a step that applies an Unknown event changes, of the session at the
\* event's key, only last_event (to the event's timestamp), and leaves every
\* other entry alone; when there is no session at the key the store is
\* unchanged and no session is created.
UnknownTouchesLastEventOnly ==
    [][(fed' = fed + 1 /\ Applied.event_type = "Unknown") =>
          IF AppliedKey \in DOMAIN sessions
          THEN /\ DOMAIN sessions' = DOMAIN sessions
               /\ sessions'[AppliedKey] =
                     [sessions[AppliedKey] EXCEPT !.last_event = Applied.timestamp]
               /\ \A k \in DOMAIN sessions \ {AppliedKey} : sessions'[k] = sessions[k]
          ELSE sessions' = sessions
      ]_vars

\* C13 witness: an Unknown event applied to a waiting session has moved its
\* last_event and nothing else
UnknownOverWaiting ==
    /\ Len(recent_events) = 2
    /\ recent_events[1].event_type = "Notification"
    /\ recent_events[1].notification_type = "IdlePrompt"
    /\ recent_events[1].message # ""
    /\ recent_events[1].timestamp = 1
    /\ recent_events[2].event_type = "Unknown"
    /\ recent_events[2].timestamp = 2
    /\ event_key(recent_events[1]) = event_key(recent_events[2])
    /\ sessions[event_key(recent_events[2])].last_event = 2
    /\ sessions[event_key(recent_events[2])].status = "WaitingInput"

\* C14: a step that applies an event handled by upsert_session (Notification,
\* Stop, PostToolUse, UserPromptSubmit) sets the entry's last_event to the
\* event's timestamp; an entry it creates takes project_name and project_dir
\* from the event, and an entry it modifies keeps the ones it had.
UpsertKeepsProject ==
    [][(fed' = fed + 1
          /\ Applied.event_type \in {"Notification", "Stop", "PostToolUse",
                                      "UserPromptSubmit"}) =>
          /\ AppliedKey \in DOMAIN sessions'
          /\ sessions'[AppliedKey].last_event = Applied.timestamp
          /\ IF AppliedKey \in DOMAIN sessions
             THEN /\ sessions'[AppliedKey].project_name = sessions[AppliedKey].project_name
                  /\ sessions'[AppliedKey].project_dir = sessions[AppliedKey].project_dir
             ELSE /\ sessions'[AppliedKey].project_name = Applied.project_name
                  /\ sessions'[AppliedKey].project_dir = Applied.project_dir
      ]_vars

\* C14 witness: an upsert has modified an entry created under another
\* project_name and at another time; the entry keeps the first name
UpsertOverOtherName ==
    /\ Len(recent_events) = 2
    /\ recent_events[1].event_type = "Stop"
    /\ recent_events[2].event_type = "PostToolUse"
    /\ recent_events[1].project_dir = "/a"
    /\ recent_events[2].project_dir = "/a"
    /\ recent_events[1].project_name # recent_events[2].project_name
    /\ recent_events[1].timestamp # recent_events[2].timestamp
    /\ sessions["/a"].project_name = recent_events[1].project_name
    /\ sessions["/a"].last_event = recent_events[2].timestamp

\* C15: after n events fed from the empty state RecentEvents holds the last
\* min(n, 50) of them, oldest first, and it never holds more than 50.
RecentHoldsLastFifty ==
    LET m == IF fed < 50 THEN fed ELSE 50
    IN  /\ Len(recent_events) <= 50
        /\ Len(recent_events) = m
        /\ \A i \in 1..m :
              /\ recent_events[i].session_id = fed - m + i
              /\ recent_events[i] \in
                    {SerialEvent(fed - m + i, et) : et \in SerialKinds(fed - m + i)}

\* C15 witness: 52 events were fed; the two oldest have been evicted
TwoEvicted ==
    /\ fed = 52
    /\ Len(recent_events) = 50
    /\ recent_events[1].session_id = 3
    /\ recent_events[50].session_id = 52

----------------------------------------------------------------------------
(* Properties of the registry (SpecRegistry, SpecDiff) *)

IsCompare(t) == tl[t].op = "compare_and_update_hash"

\* C4: compare_and_update_hash on a key with no hash entry returns NewEntry and
\* records the hash; on a key whose recorded hash differs it returns Changed,
\* leaves no process registered for the key, has killed and reaped the process
\* it removed exactly once, and records the new hash; and no child is ever
\* killed twice by any sequence of register, compare, kill and kill_all calls.
ChangedKillsExactlyOnce ==
    /\ \A p \in DOMAIN children : children[p].kills <= 1
    /\ \A t \in Threads :
          (tpc[t] = "ret" /\ IsCompare(t)) =>
             /\ tl[t].previous_hash = {} =>
                   /\ tl[t].result = "NewEntry"
                   /\ diff_hashes[tl[t].key] = tl[t].hash
             /\ (tl[t].previous_hash # {} /\ tl[t].previous_hash # {tl[t].hash}) =>
                   /\ tl[t].result = "Changed"
                   /\ tl[t].key \notin DOMAIN processes
                   /\ \A p \in tl[t].process :
                         children[p].state = "reaped" /\ children[p].kills = 1
                   /\ diff_hashes[tl[t].key] = tl[t].hash

\* C4 witness: a compare call about to return Changed after killing the child
\* that was registered for its key
ChangedKilledRegistered ==
    \E t \in Threads :
        /\ tpc[t] = "ret" /\ IsCompare(t)
        /\ tl[t].result = "Changed"
        /\ tl[t].process # {}

\* a compare call that has returned, or is about to
Compared(t) == IsCompare(t) /\ tl[t].result # "none"

\* C5: of two compare calls for the same key and the same new hash made
\* concurrently (the second was waiting for the lock when the first took it, and
\* took it next) while the recorded hash was another one, the first returns
\* Changed and the second Unchanged, and the old process is killed once.
ConcurrentComparesSerialize ==
    \A t1, t2 \in Threads :
        ( /\ t1 # t2
          /\ Compared(t1) /\ Compared(t2)
          /\ tl[t1].key = tl[t2].key /\ tl[t1].hash = tl[t2].hash
          /\ tl[t1].contended
          /\ tl[t2].seq = tl[t1].seq + 1
          /\ tl[t1].previous_hash # {} /\ tl[t1].previous_hash # {tl[t1].hash} )
        => /\ tl[t1].result = "Changed"
           /\ tl[t2].result = "Unchanged"
           /\ tl[t2].process = {}
           /\ \A p \in tl[t1].process : children[p].kills = 1

\* C5 witness: two such concurrent calls have both returned, and the first
\* killed a registered process
ConcurrentComparesDone ==
    \E t1, t2 \in Threads :
        /\ t1 # t2
        /\ Compared(t1) /\ Compared(t2)
        /\ tpc[t1] = "idle" /\ tpc[t2] = "idle"
        /\ tl[t1].key = tl[t2].key /\ tl[t1].hash = tl[t2].hash
        /\ tl[t1].contended
        /\ tl[t2].seq = tl[t1].seq + 1
        /\ tl[t1].result = "Changed"
        /\ tl[t1].process # {}

\* C6: a compare_and_update_hash call that finds the recorded hash equal to its
\* argument returns Unchanged at once, and neither it nor its return changes
\* the process map, the hash map or any child process.
UnchangedIsNoOp ==
    [][\A t \in Threads :
          /\ ( /\ tpc[t] = "run" /\ IsCompare(t)
               /\ tl[t].key \in DOMAIN diff_hashes
               /\ diff_hashes[tl[t].key] = tl[t].hash
               /\ tpc'[t] # "run" )
             => /\ tpc'[t] = "ret"
                /\ tl'[t].result = "Unchanged"
                /\ processes' = processes
                /\ diff_hashes' = diff_hashes
                /\ children' = children
          /\ ( /\ tpc[t] = "ret" /\ IsCompare(t)
               /\ tl[t].result = "Unchanged"
               /\ tpc'[t] # "ret" )
             => /\ processes' = processes
                /\ diff_hashes' = diff_hashes
                /\ children' = children
      ]_vars

\* C6 witness: a compare call about to return Unchanged while a running child
\* is registered for its key
UnchangedKeepsProcess ==
    \E t \in Threads :
        /\ tpc[t] = "ret" /\ IsCompare(t)
        /\ tl[t].result = "Unchanged"
        /\ tl[t].key \in DOMAIN processes
        /\ children[processes[tl[t].key]].state = "running"

\* C7 (the claim as stated): for every window key, at most one child process
\* spawned for that key is running.
AtMostOneLiveChildPerKey ==
    \A k \in Keys : Cardinality(Alive(k)) <= 1

IsKill(t) == tl[t].op = "kill"

\* C20: kill(key) returns with neither a process nor a hash registered for
\* key, having killed and reaped, once, the process that was registered; it
\* changes the entries of no other key and no other child; and on a key with no
\* entry at all (after an earlier kill, or never registered) it changes nothing.
KillClearsKeyOnly ==
    /\ [](\A t \in Threads :
            (tpc[t] = "ret" /\ IsKill(t)) =>
                /\ tl[t].key \notin DOMAIN processes
                /\ tl[t].key \notin DOMAIN diff_hashes
                /\ \A p \in tl[t].process :
                      children[p].state = "reaped" /\ children[p].kills = 1)
    /\ [][\A t \in Threads :
            (tpc[t] = "run" /\ IsKill(t) /\ tpc'[t] # "run") =>
                /\ tpc'[t] = "ret"
                /\ DOMAIN processes' = DOMAIN processes \ {tl[t].key}
                /\ DOMAIN diff_hashes' = DOMAIN diff_hashes \ {tl[t].key}
                /\ \A k \in DOMAIN processes' : processes'[k] = processes[k]
                /\ \A k \in DOMAIN diff_hashes' : diff_hashes'[k] = diff_hashes[k]
                /\ Len(children') = Len(children)
                /\ \A p \in DOMAIN children :
                      IF tl[t].key \in DOMAIN processes /\ processes[tl[t].key] = p
                      THEN children'[p].state = "reaped"
                      ELSE children'[p] = children[p]
                /\ (tl[t].key \notin DOMAIN processes
                        /\ tl[t].key \notin DOMAIN diff_hashes) =>
                      /\ processes' = processes
                      /\ diff_hashes' = diff_hashes
                      /\ children' = children
         ]_vars

\* C20 witness: a kill that removed and reaped the registered process of its
\* key is followed by a second kill of the same key, about to return, while
\* another key keeps its running process
KilledTwiceKeptOther ==
    \E t, u \in Threads :
        /\ t # u
        /\ IsKill(t) /\ tpc[t] = "idle" /\ tl[t].result = "unit"
        /\ tl[t].process # {}
        /\ IsKill(u) /\ tpc[u] = "ret" /\ tl[u].key = tl[t].key
        /\ tl[u].seq > tl[t].seq
        /\ \E k \in DOMAIN processes \ {tl[t].key} :
              children[processes[k]].state = "running"

----------------------------------------------------------------------------
(* The children of the application at exit (SpecDiff) *)

\* C21: once the Exit handler's kill_all has returned, every child the
\* application spawned has been terminated and reaped: none is still running
NoChildOutlivesExit ==
    exited => \A p \in DOMAIN children : children[p].state # "running"

----------------------------------------------------------------------------
(* Port allocation (SpecPort) *)

\* the last port a u16 counter reaches before wrapping_add(1) returns 0
MaxPort == PortModulus - 1

\* the counter after any number of earlier calls: at its start, and near its end
StartPorts == {DEFAULT_DIFIT_PORT, MaxPort - 1, MaxPort}

InitPort ==
    /\ InitExceptPort
    /\ next_port \in StartPorts

\* threads calling get_next_port
NextPort ==
    \E t \in Threads :
        \/ CallGetPort(t) /\ UNCHANGED auxVars
        \/ Lock(t) /\ UNCHANGED auxVars
        \/ RunGetPort(t) /\ UNCHANGED auxVars
        \/ Return(t) /\ UNCHANGED auxVars

SpecPort == InitPort /\ [][NextPort]_vars

\* thread t's latest call was get_next_port and it has its port
GotPort(t) == tl[t].op = "get_next_port" /\ tpc[t] \in {"ret", "idle"}

\* the port that follows p in 4966, 4967, ..., 65535, 4966, ...
PortAfter(p) == IF p = MaxPort THEN DEFAULT_DIFIT_PORT ELSE p + 1

\* C22: every call of get_next_port returns the counter and moves it to the
\* next port of 4966, 4967, ..., 65535, 4966, ...: every returned port is in
\* [4966, 65535], the call that takes the lock next gets the following port,
\* and no two calls get the same port
PortsInSequence ==
    /\ [](/\ next_port \in DEFAULT_DIFIT_PORT..MaxPort
          /\ \A t \in Threads : GotPort(t) =>
                tl[t].result \in DEFAULT_DIFIT_PORT..MaxPort
          /\ \A t, u \in Threads :
                (GotPort(t) /\ GotPort(u) /\ tl[u].seq = tl[t].seq + 1) =>
                    tl[u].result = PortAfter(tl[t].result)
          /\ \A t, u \in Threads :
                (t # u /\ GotPort(t) /\ GotPort(u)) => tl[t].result # tl[u].result)
    /\ [][\A t \in Threads :
            (tl[t].op = "get_next_port" /\ tpc[t] = "run" /\ tpc'[t] = "ret") =>
                /\ tl'[t].result = next_port
                /\ next_port' = PortAfter(next_port)
         ]_vars

\* C22 witness: one call got 65535 and the call after it got 4966
PortWrapped ==
    \E t, u \in Threads :
        /\ GotPort(t) /\ GotPort(u)
        /\ tl[t].result = MaxPort
        /\ tl[u].seq = tl[t].seq + 1
        /\ tl[u].result = DEFAULT_DIFIT_PORT

----------------------------------------------------------------------------
(* The waiting reason and the keys of the Session Store (SpecEvents) *)

\* C26 (the claim as stated): waiting_for is empty unless the session's status
\* is WaitingPermission or WaitingInput
WaitingForOnlyWhenWaiting ==
    \A k \in DOMAIN sessions :
        sessions[k].waiting_for # "" =>
            sessions[k].status \in {"WaitingPermission", "WaitingInput"}

\* C26 (amended): waiting_for is empty unless the entry's status was set by a
\* Notification, that is WaitingPermission, WaitingInput or, for a notification
\* of kind Other, Active; it is then that notification's message, or its tool
\* name when the message is empty.  A Completed session has an empty waiting_for.
WaitingForOnlyAfterNotification ==
    \A k \in DOMAIN sessions :
        /\ sessions[k].status = "Completed" => sessions[k].waiting_for = ""
        /\ sessions[k].waiting_for # "" =>
              \E i \in 1..Len(recent_events) :
                 LET e == recent_events[i]
                     ek == IF e.project_dir # "" THEN e.project_dir ELSE e.project_name
                 IN  /\ e.event_type = "Notification"
                     /\ ek = k
                     /\ sessions[k].waiting_for =
                           (IF e.message # "" THEN e.message ELSE e.tool_name)
                     /\ sessions[k].status =
                           (IF e.notification_type = "PermissionPrompt"
                            THEN "WaitingPermission"
                            ELSE IF e.notification_type = "IdlePrompt"
                            THEN "WaitingInput" ELSE "Active")
                     /\ \A j \in (i + 1)..Len(recent_events) :
                           LET f == recent_events[j]
                               fk == IF f.project_dir # "" THEN f.project_dir
                                     ELSE f.project_name
                           IN  fk = k => f.event_type = "Unknown"

\* C26 witness: a notification of kind Other with a message has left its
\* session Active with the message as waiting_for
ActiveWithWaitingFor ==
    /\ recent_events # <<>>
    /\ LastEvent.event_type = "Notification"
    /\ LastEvent.notification_type = "Other"
    /\ LastEvent.message = "msg"
    /\ event_key(LastEvent) \in DOMAIN sessions
    /\ sessions[event_key(LastEvent)].status = "Active"
    /\ sessions[event_key(LastEvent)].waiting_for = "msg"

\* C30: every entry of the Session Store is stored under its own project_dir,
\* or under its project_name when its project_dir is empty; and a step of
\* process_event changes, adds or removes only the entry at the key derived
\* in that way from the event.
KeyedByProject ==
    /\ [](\A k \in DOMAIN sessions :
             k = (IF sessions[k].project_dir # "" THEN sessions[k].project_dir
                  ELSE sessions[k].project_name))
    /\ [][fed' = fed + 1 =>
            \A k \in (DOMAIN sessions \cup DOMAIN sessions') \ {AppliedKey} :
                /\ k \in DOMAIN sessions
                /\ k \in DOMAIN sessions'
                /\ sessions'[k] = sessions[k]
         ]_vars

\* C30 witness: an event without project_dir was applied, under its
\* project_name, next to the entry of a project directory, which it left alone
KeyedByNameNextToDir ==
    /\ Len(recent_events) = 2
    /\ recent_events[1].project_dir = "/a"
    /\ recent_events[1].event_type = "SessionStart"
    /\ recent_events[2].project_dir = ""
    /\ recent_events[2].event_type = "Notification"
    /\ DOMAIN sessions = {"/a", "a"}
    /\ sessions["a"].project_dir = ""
    /\ sessions["/a"].last_event = recent_events[1].timestamp
    /\ sessions["/a"].status = "Active"

----------------------------------------------------------------------------
(* The answer Unchanged (SpecRegistry) *)

\* C27: whenever compare_and_update_hash(key, H) is about to return Unchanged,
\* a process is registered for key
UnchangedImpliesRegistered ==
    \A t \in Threads :
        (IsCompare(t) /\ tpc[t] = "ret" /\ tl[t].result = "Unchanged") =>
            tl[t].key \in DOMAIN processes

----------------------------------------------------------------------------
(* Failing diff-view requests (SpecDiff) *)

\* C28: a diff-view request that fails returns an error value, leaves no
\* process registered for its key, spawns nothing, and leaves the Session
\* Store, the windows and the registry's entries of every other key unchanged
FailedRequestLeavesNothing ==
    [][\A t \in Workers :
          (tpc[t] = "start" /\ tpc'[t] = "idle") =>
              /\ tl'[t].result = "Err"
              /\ tl[t].key \notin DOMAIN processes'
              /\ \A k \in Keys \ {tl[t].key} :
                    /\ (k \in DOMAIN processes') = (k \in DOMAIN processes)
                    /\ k \in DOMAIN processes => processes'[k] = processes[k]
                    /\ (k \in DOMAIN diff_hashes') = (k \in DOMAIN diff_hashes)
                    /\ k \in DOMAIN diff_hashes => diff_hashes'[k] = diff_hashes[k]
              /\ children' = children
              /\ UNCHANGED storeVars
      ]_vars

----------------------------------------------------------------------------
(* The poisoned registry lock (SpecPoison) *)

\* worker threads calling the registry's methods; a thread may panic while it
\* holds the guard
NextPoison ==
    \E t \in Workers :
        \/ CallCompare(t) /\ UNCHANGED auxVars
        \/ CallRegister(t) /\ UNCHANGED auxVars
        \/ Lock(t) /\ UNCHANGED auxVars
        \/ LockPoisoned(t) /\ UNCHANGED auxVars
        \/ PanicHolding(t) /\ UNCHANGED auxVars
        \/ RunRegister(t) /\ UNCHANGED auxVars
        \/ CauRead(t) /\ UNCHANGED auxVars
        \/ CauKill(t) /\ UNCHANGED auxVars
        \/ CauInsert(t) /\ UNCHANGED auxVars
        \/ Return(t) /\ UNCHANGED auxVars

SpecPoison == Init /\ [][NextPoison]_vars

\* C23: a compare_and_update_hash call that finds the registry lock poisoned
\* returns Changed, without panicking and without running any part of the
\* method's body: the process map, the hash map and the children are as before
PoisonedCompareFailsSafe ==
    /\ [][\A t \in Threads :
            (IsCompare(t) /\ tpc[t] = "lock" /\ lockHolder = "poisoned"
                 /\ tpc'[t] # "lock") =>
                /\ tpc'[t] = "idle"
                /\ tl'[t].result = "Changed"
                /\ processes' = processes
                /\ diff_hashes' = diff_hashes
                /\ children' = children
         ]_vars
    /\ [](lockHolder = "poisoned" =>
             \A t \in Threads :
                 tpc[t] \notin {"run", "cau_changed", "cau_insert", "ret"})

\* C23 witness: with the lock poisoned, a compare for a key whose recorded hash
\* is the new hash and whose process is registered and running has returned
\* Changed, and the process is still registered and running
PoisonedCompareOfSameHash ==
    \E t \in Threads :
        /\ IsCompare(t) /\ tpc[t] = "idle" /\ tl[t].seq = 0
        /\ tl[t].result = "Changed"
        /\ lockHolder = "poisoned"
        /\ tl[t].key \in DOMAIN diff_hashes
        /\ diff_hashes[tl[t].key] = tl[t].hash
        /\ tl[t].key \in DOMAIN processes
        /\ children[processes[tl[t].key]].state = "running"

----------------------------------------------------------------------------
(* main.rs, commands.rs: the threads that take the Session Store's Mutex.   *)
(* The setup closure drains once and then starts the watcher thread, which  *)
(* drains once per notification of its channel; a command removes a session.*)
(* Each holds the guard from state.lock() to the end of its block.          *)

\* the channel after n more notifications of the watched directory; nothing
\* is watched before start_file_watcher has run, and the channel is cut off
\* at MaxPending
RaiseOnEveryStep(n) ==
    IF spc["watcher"] = "off" THEN notified
    ELSE IF notified + 1 > MaxPending THEN MaxPending ELSE notified + 1
Raise(n) ==
    IF spc["watcher"] = "off" THEN notified
    ELSE IF notified + n > MaxPending THEN MaxPending ELSE notified + n

\* main.rs:117, main.rs:193, commands.rs:28  state.lock()
StoreLockNotExclusive(t) ==
    /\ spc[t] = "lock"
    /\ stateLock' = t
    /\ spc' = [spc EXCEPT ![t] = IF t = "cmd" THEN "remove" ELSE "call"]
    /\ UNCHANGED <<notified, diffVars, seek, storeVars, drainVars, writerVars, fed, regVars>>
StoreLock(t) ==
    /\ spc[t] = "lock"
    /\ stateLock = "none"
    /\ stateLock' = t
    /\ spc' = [spc EXCEPT ![t] = IF t = "cmd" THEN "remove" ELSE "call"]
    /\ UNCHANGED <<notified, diffVars, seek, storeVars, drainVars, writerVars, fed, regVars>>

\* main.rs:121, main.rs:203  thread t is inside drain_events_queue and takes
\* one of its steps, which raises n notifications; when the call returns, the
\* caller saves the runtime state if new_events is not empty (main.rs:123-127,
\* 204-206) and then leaves its block
Draining(t, n) ==
    /\ spc[t] = "call"
    /\ spc' = [spc EXCEPT ![t] = IF dpc' # "idle" THEN "call"
                                ELSE IF new_events' # <<>> THEN "save"
                                ELSE "unlock"]
    /\ notified' = Raise(n)
    /\ UNCHANGED <<stateLock, diffVars, seek>>

\* persist.rs:27-58  save_runtime_state: create_dir_all and fs::write of
\* runtime_state.json, in the configuration directory
SaveRuntimeState(t) ==
    /\ spc[t] = "save"
    /\ spc' = [spc EXCEPT ![t] = "unlock"]
    /\ UNCHANGED <<stateLock, notified, diffVars, seek, storeVars, drainVars, writerVars, fed, regVars>>

\* main.rs:128, main.rs:207, commands.rs:34  the guard goes out of scope
StoreUnlock(t) ==
    /\ spc[t] = "unlock"
    /\ stateLock' = "none"
    /\ spc' = [spc EXCEPT ![t] = CASE t = "setup"   -> "start"
                                   [] t = "watcher" -> "recv"
                                   [] OTHER         -> "idle"]
    /\ UNCHANGED <<notified, diffVars, seek, storeVars, drainVars, writerVars, fed, regVars>>

\* main.rs:369, main.rs:84-113  start_file_watcher: the thread, its channel,
\* the watch of the log directory
StartFileWatcher ==
    /\ spc["setup"] = "start"
    /\ spc' = [spc EXCEPT !["setup"] = "done", !["watcher"] = "recv"]
    /\ UNCHANGED <<stateLock, notified, diffVars, seek, storeVars, drainVars, writerVars, fed, regVars>>

\* main.rs:115-117  rx.recv() returns a notification
WatcherRecvAnyTime ==
    /\ spc["watcher"] \in {"recv", "call", "save", "unlock"}
    /\ notified > 0
    /\ notified' = notified - 1
    /\ spc' = [spc EXCEPT !["watcher"] = "lock"]
    /\ UNCHANGED <<stateLock, diffVars, seek, storeVars, drainVars, writerVars, fed, regVars>>
WatcherRecv ==
    /\ spc["watcher"] = "recv"
    /\ notified > 0
    /\ notified' = notified - 1
    /\ spc' = [spc EXCEPT !["watcher"] = "lock"]
    /\ UNCHANGED <<stateLock, diffVars, seek, storeVars, drainVars, writerVars, fed, regVars>>

\* commands.rs:23-28  remove_session is invoked
CmdRemoveSession ==
    /\ spc["cmd"] = "idle"
    /\ spc' = [spc EXCEPT !["cmd"] = "lock"]
    /\ UNCHANGED <<stateLock, notified, diffVars, seek, storeVars, drainVars, writerVars, fed, regVars>>

\* commands.rs:29-32  sessions.remove(&project_dir), then save_runtime_state
RemoveSession ==
    /\ spc["cmd"] = "remove"
    /\ sessions' = remove_session(sessions, "/a")
    /\ spc' = [spc EXCEPT !["cmd"] = "save"]
    /\ UNCHANGED <<stateLock, notified, diffVars, seek, recent_events, last_file_pos,
                   drainVars, writerVars, fed, regVars>>

\* commands.rs:41-45  clear_all_sessions under the guard: sessions.clear(),
\* then save_runtime_state
ClearAllSessions ==
    /\ spc["cmd"] = "remove"
    /\ sessions' = clear_all_sessions(sessions)
    /\ spc' = [spc EXCEPT !["cmd"] = "save"]
    /\ UNCHANGED <<stateLock, notified, diffVars, seek, recent_events, last_file_pos,
                   drainVars, writerVars, fed, regVars>>

\* commands.rs:18-19  get_dashboard_data under the guard: the store is read
GetDashboardData ==
    /\ spc["cmd"] = "remove"
    /\ spc' = [spc EXCEPT !["cmd"] = "unlock"]
    /\ UNCHANGED <<stateLock, notified, diffVars, seek, storeVars, drainVars, writerVars,
                   fed, regVars>>

\* the setup closure, the watcher thread, a command and the hook (whose lines
\* all carry the same timestamp here)
NextWatch ==
    \/ \E t \in StoreThreads : StoreLock(t)
    \/ \E t \in StoreThreads : DrainNothing /\ Draining(t, 0)
    \/ \E t \in StoreThreads : DrainBegin /\ Draining(t, 0)
    \/ \E t \in StoreThreads : DrainRename /\ Draining(t, 1)
    \/ \E t \in StoreThreads : DrainRenameFails /\ Draining(t, 0)
    \/ \E t \in StoreThreads : DrainRecreate /\ Draining(t, 1)
    \/ \E t \in StoreThreads : DrainRecreateFails /\ Draining(t, 0)
    \/ \E t \in StoreThreads : DrainOpen /\ Draining(t, 0)
    \/ \E t \in StoreThreads : DrainReadLine /\ Draining(t, 0)
    \/ \E t \in StoreThreads : DrainReadEof /\ Draining(t, 0)
    \/ \E t \in StoreThreads : DrainDelete /\ Draining(t, 1)
    \/ \E t \in StoreThreads : SaveRuntimeState(t)
    \/ \E t \in StoreThreads : StoreUnlock(t)
    \/ StartFileWatcher
    \/ WatcherRecv
    \/ CmdRemoveSession
    \/ RemoveSession
    \/ ClearAllSessions
    \/ GetDashboardData
    \/ HookOpen /\ UNCHANGED <<stateLock, spc, notified, diffVars, seek>>
    \/ /\ HookWrite
       /\ written'[Len(written')].timestamp = 1
       /\ notified' = Raise(1)
       /\ UNCHANGED <<stateLock, spc, diffVars, seek>>

SpecWatch == Init /\ [][NextWatch]_vars

\* C24: no thread that holds the Session Store lock is inside the drain's file
\* operations or inside save_runtime_state: the lock is released before any
\* such I/O starts
NoIoUnderStoreLock ==
    \A t \in StoreThreads :
        stateLock = t => /\ spc[t] # "save"
                         /\ ~(spc[t] = "call" /\ dpc # "idle")

\* C25: at most one drain cycle is in progress: a drain step is taken only by
\* the one thread that is inside drain_events_queue, which holds the Session
\* Store lock; the watcher does not exist before the setup closure has
\* finished its drain; and a notification is taken from the channel only
\* between drains, by the watcher, which then starts a drain of its own.
OneDrainAtATime ==
    /\ [](/\ Cardinality({t \in StoreThreads : spc[t] \in {"call", "save", "unlock"}
                                               /\ t # "cmd"}) <= 1
          /\ dpc # "idle" => \E t \in StoreThreads : spc[t] = "call" /\ stateLock = t
          /\ spc["watcher"] # "off" => spc["setup"] = "done")
    /\ [][/\ notified' < notified =>
                /\ dpc = "idle"
                /\ \A t \in StoreThreads : spc[t] # "call"
                /\ spc'["watcher"] = "lock"
          /\ (dpc' # dpc \/ new_events' # new_events \/ procFile' # procFile) =>
                \E t \in StoreThreads : spc[t] = "call" /\ stateLock = t
         ]_vars

\* C25 witness: while the watcher is in the middle of a drain, a line written
\* by the hook waits in the recreated events.jsonl and its notification waits
\* in the channel
NotifiedDuringDrain ==
    /\ spc["watcher"] = "call"
    /\ dpc = "read"
    /\ notified >= 1
    /\ logFile.exists /\ logFile.lines # <<>>
    /\ procFile.lines # <<>>

----------------------------------------------------------------------------
(* Starting a diff server (SpecStart) *)

\* one call of start_difit_server and the child it spawns
NextStart ==
    \/ SdSpawn
    \/ SdSpawnFails
    \/ SdWrite
    \/ SdWriteErr
    \/ SdWriteDone
    \/ ChildRead
    \/ ChildLine
    \/ ChildExit
    \/ ReaderLine
    \/ ReaderEnd
    \/ SdRecv
    \/ SdTimeout

\* the call and its reader thread keep running and the timeout expires; the
\* child owes nothing
SpecStart == Init /\ [][NextStart]_vars /\ WF_vars(SdStep)

\* C29: once the child is spawned the call returns, whatever the child does
StartAlwaysReturns == (sd.pc = "write") ~> (sd.pc = "returned")

----------------------------------------------------------------------------
(* Frame of process_event (SpecEvents) *)

\* C35: a step of process_event appends its event to RecentEvents, whatever
\* the event's kind and whether or not a session is touched, and changes, adds
\* or removes no session entry other than the one at the event's key
AppendsAlwaysTouchesOneKey ==
    [][fed' = fed + 1 =>
          /\ Len(recent_events') = Len(recent_events) + 1
          /\ SubSeq(recent_events', 1, Len(recent_events)) = recent_events
          /\ \A k \in DOMAIN sessions \cup DOMAIN sessions' :
                k # AppliedKey =>
                    /\ k \in DOMAIN sessions /\ k \in DOMAIN sessions'
                    /\ sessions'[k] = sessions[k]
      ]_vars

\* C35 witness: an Unknown event and a SessionEnd event for keys with no
\* session were both appended to RecentEvents, and the store is still empty
AppendedWithoutSession ==
    /\ Len(recent_events) = 2
    /\ recent_events[1].event_type = "Unknown"
    /\ recent_events[2].event_type = "SessionEnd"
    /\ sessions = EmptyMap

----------------------------------------------------------------------------
(* The commands that remove sessions (SpecStore).  A command holds the      *)
(* Session Store lock from its first line to its return, so it is one step; *)
(* tl["main"] records the command and its argument.                         *)

\* the keys a remove_session command is given: keys of sessions, and a
\* project_name that is no key
StoreKeys == {"/a", "a", "b"}

\* commands.rs:23-34  remove_session(project_dir)
CallRemoveSession ==
    /\ calls < MaxCalls
    /\ \E k \in StoreKeys :
          /\ sessions' = remove_session(sessions, k)
          /\ tl' = [tl EXCEPT !["main"] = NewCall("remove_session", k, 0, {})]
    /\ calls' = calls + 1
    /\ UNCHANGED <<recent_events, last_file_pos, drainVars, writerVars, fed, auxVars>>
    /\ UNCHANGED <<processes, diff_hashes, next_port, lockHolder, lockSeq, tpc,
                   children, windows, exited>>

\* commands.rs:37-47  clear_all_sessions()
CallClearAllSessions ==
    /\ calls < MaxCalls
    /\ sessions' = clear_all_sessions(sessions)
    /\ tl' = [tl EXCEPT !["main"] = NewCall("clear_all_sessions", "", 0, {})]
    /\ calls' = calls + 1
    /\ UNCHANGED <<recent_events, last_file_pos, drainVars, writerVars, fed, auxVars>>
    /\ UNCHANGED <<processes, diff_hashes, next_port, lockHolder, lockSeq, tpc,
                   children, windows, exited>>

\* events are applied and commands are run, in any order; the events carry
\* neither message nor tool name and all the same timestamp
NextStore ==
    \/ /\ Feed
       /\ Applied.message = "" /\ Applied.timestamp = 1
       /\ Applied.notification_type = "Other"
       /\ UNCHANGED auxVars
    \/ CallRemoveSession
    \/ CallClearAllSessions

SpecStore == Init /\ [][NextStore]_vars

\* C40: remove_session(k) removes the entry stored at key k and no other, and
\* nothing when there is none; clear_all_sessions removes every entry; both
\* leave RecentEvents as it is; and a key gets an entry only by an event for
\* that key that is neither SessionEnd nor Unknown
RemovalIsExact ==
    [][/\ (calls' = calls + 1 /\ tl'["main"].op = "remove_session") =>
              /\ DOMAIN sessions' = DOMAIN sessions \ {tl'["main"].key}
              /\ \A j \in DOMAIN sessions' : sessions'[j] = sessions[j]
              /\ recent_events' = recent_events
       /\ (calls' = calls + 1 /\ tl'["main"].op = "clear_all_sessions") =>
              /\ sessions' = EmptyMap
              /\ recent_events' = recent_events
       /\ \A k \in DOMAIN sessions' \ DOMAIN sessions :
              /\ fed' = fed + 1
              /\ AppliedKey = k
              /\ Applied.event_type \notin {"SessionEnd", "Unknown"}
      ]_vars

\* C40 witness: the session of "/a", started under project_name "a", was
\* removed by remove_session("/a") and then created again by a Stop event for
\* "/a", whose project_name "b" it now carries
RemovedThenRestored ==
    /\ Len(recent_events) = 2
    /\ recent_events[1].event_type = "SessionStart"
    /\ recent_events[1].project_dir = "/a" /\ recent_events[1].project_name = "a"
    /\ recent_events[2].event_type = "Stop"
    /\ recent_events[2].project_dir = "/a" /\ recent_events[2].project_name = "b"
    /\ tl["main"].op = "remove_session" /\ tl["main"].key = "/a"
    /\ "/a" \in DOMAIN sessions
    /\ sessions["/a"].project_name = "b"
    /\ sessions["/a"].status = "Completed"

----------------------------------------------------------------------------
(* Register only after compare (SpecProtocol) *)

\* worker threads calling the registry's methods, where a thread registers a
\* child for a key only as its next call after a compare_and_update_hash for
\* that key that returned NewEntry or Changed
NextProtocol ==
    \E t \in Workers :
        \/ CallCompare(t) /\ UNCHANGED auxVars
        \/ /\ IsCompare(t) /\ tpc[t] = "idle"
           /\ tl[t].result \in {"NewEntry", "Changed"}
           /\ CallRegister(t)
           /\ tl'[t].key = tl[t].key
           /\ UNCHANGED auxVars
        \/ CallKill(t) /\ UNCHANGED auxVars
        \/ CallKillAll(t) /\ UNCHANGED auxVars
        \/ Lock(t) /\ UNCHANGED auxVars
        \/ RunRegister(t) /\ UNCHANGED auxVars
        \/ CauRead(t) /\ UNCHANGED auxVars
        \/ CauKill(t) /\ UNCHANGED auxVars
        \/ CauInsert(t) /\ UNCHANGED auxVars
        \/ RunKill(t) /\ UNCHANGED auxVars
        \/ RunKillAll(t) /\ UNCHANGED auxVars
        \/ Return(t) /\ UNCHANGED auxVars

SpecProtocol == Init /\ [][NextProtocol]_vars

\* C39: whenever no method holds the registry lock, every key that has a
\* registered process has a hash entry
HashForEveryProcess ==
    lockHolder = "none" => DOMAIN processes \subseteq DOMAIN diff_hashes

----------------------------------------------------------------------------
(* commands.rs: the label of a diff window (SpecLabel) *)

\* the UTF-8 bytes of the strings that are hashed
Bytes(s) ==
    CASE s = "/a"       -> <<47, 97>>
      [] s = "/b"       -> <<47, 98>>
      [] s = "unstaged" -> <<117, 110, 115, 116, 97, 103, 101, 100>>
      [] s = "branch"   -> <<98, 114, 97, 110, 99, 104>>
      [] s = "other"    -> <<111, 116, 104, 101, 114>>

\* impl Hash for str: the bytes of the string, then the byte 0xff
StrHash(stream, s) == stream \o Bytes(s) \o <<255>>

\* commands.rs:128, 132  DefaultHasher::new() ... finish(): the hasher's keys
\* are fixed, so the value depends on the bytes written and on nothing else;
\* the mixing of SipHash is replaced by a multiply-and-add over the bytes,
\* kept to 16 bits
RECURSIVE DefaultHash(_)
DefaultHash(stream) ==
    IF stream = <<>> THEN 0
    ELSE (DefaultHash(SubSeq(stream, 1, Len(stream) - 1)) * 31
             + stream[Len(stream)]) % PortModulus

\* commands.rs:125-133  format!("difit-{:x}", hasher.finish())
generate_diff_window_label(project_dir, diff_type) ==
    [prefix |-> "difit-",
     hash |-> DefaultHash(StrHash(StrHash(<<>>, project_dir), diff_type))]

\* the arguments of the requests; base_branch is an Option
ProjectDirs == {"/a", "/b"}
DiffTypeInputs == {"unstaged", "branch", "other"}
BaseBranches == {{}, {"main"}, {"dev"}}

\* commands.rs:198-295  open_diff on a git repository: the label, the window
\* that has it is focused, otherwise the diff type is parsed and the window
\* is built
OpenDiffRequest ==
    /\ calls < MaxRequests
    /\ \E pd \in ProjectDirs, dt \in DiffTypeInputs, bb \in BaseBranches :
          LET window_label == generate_diff_window_label(pd, dt)
              outcome == IF window_label \in windows THEN "focused"
                         ELSE IF dt \notin {"unstaged", "staged", "commit", "branch"}
                         THEN "Err"
                         ELSE "opened"
          IN  /\ requests' = requests \cup
                    {[project_dir |-> pd, diff_type |-> dt, base_branch |-> bb,
                      window_label |-> window_label, outcome |-> outcome,
                      n |-> calls + 1]}
              /\ windows' = IF outcome = "opened" THEN windows \cup {window_label}
                            ELSE windows
    /\ calls' = calls + 1
    /\ UNCHANGED <<storeVars, drainVars, writerVars, fed, lockVars, sd, seek>>
    /\ UNCHANGED <<processes, diff_hashes, next_port, lockHolder, lockSeq, tpc, tl,
                   children, exited>>

\* the user closes a diff window
CloseDiffWindow ==
    /\ \E w \in windows : windows' = windows \ {w}
    /\ UNCHANGED <<storeVars, drainVars, writerVars, fed, lockVars, diffVars, seek>>
    /\ UNCHANGED <<processes, diff_hashes, next_port, lockHolder, lockSeq, tpc, tl,
                   children, calls, exited>>

NextLabel ==
    \/ OpenDiffRequest
    \/ CloseDiffWindow

SpecLabel == Init /\ [][NextLabel]_vars

\* C32: requests with equal project_dir, diff_type and base_branch get the
\* same window key, and requests that differ in base_branch get different keys
KeyedByBaseBranch ==
    \A r, q \in requests :
        /\ (r.project_dir = q.project_dir /\ r.diff_type = q.diff_type
                /\ r.base_branch = q.base_branch) =>
              r.window_label = q.window_label
        /\ (r.project_dir = q.project_dir /\ r.diff_type = q.diff_type
                /\ r.base_branch # q.base_branch) =>
              r.window_label # q.window_label

----------------------------------------------------------------------------
(* A closed diff window (SpecDiff) *)

\* C34: when a label has no window (its Destroyed handler's kill has run) and
\* no open_diff, background thread or handler is at work any more, no process
\* is registered for the label and no child spawned for it is running
NoProcessAfterDestroyed ==
    (~exited /\ \A t \in Threads : tpc[t] = "idle") =>
        \A k \in Keys :
            k \notin windows => k \notin DOMAIN processes /\ Alive(k) = {}

----------------------------------------------------------------------------
(* Failures of opening and reading the rotated file (SpecReadFaults) *)

\* the hook appends only between drain calls and may write malformed lines;
\* opening the sibling file, and reading any of its lines, may fail
NextReadFaults ==
    \/ wfd = "closed" /\ DrainNothing /\ UNCHANGED auxVars
    \/ wfd = "closed" /\ DrainBegin /\ UNCHANGED auxVars
    \/ wfd = "closed" /\ DrainRename /\ UNCHANGED auxVars
    \/ wfd = "closed" /\ DrainRecreate /\ UNCHANGED auxVars
    \/ wfd = "closed" /\ DrainOpen /\ UNCHANGED auxVars
    \/ wfd = "closed" /\ DrainOpenFails /\ UNCHANGED auxVars
    \/ wfd = "closed" /\ DrainReadLine /\ UNCHANGED auxVars
    \/ wfd = "closed" /\ DrainReadError /\ UNCHANGED auxVars
    \/ wfd = "closed" /\ DrainReadEof /\ UNCHANGED auxVars
    \/ wfd = "closed" /\ DrainDelete /\ UNCHANGED auxVars
    \/ dpc = "idle" /\ HookOpen /\ UNCHANGED auxVars
    \/ dpc = "idle" /\ HookWrite /\ UNCHANGED auxVars
    \/ dpc = "idle" /\ HookWriteMalformed /\ UNCHANGED auxVars

SpecReadFaults == Init /\ [][NextReadFaults]_vars

\* C33: when the sibling file is deleted, the reader has read every non-blank
\* line it contains, so that each was applied or reported as a parse failure
EveryLineReadBeforeDelete ==
    [][(dpc = "delete" /\ ~procFile'.exists) =>
          \A i \in 1..Len(procFile.lines) :
              procFile.lines[i].kind # "blank" => i <= rdpos
      ]_vars

----------------------------------------------------------------------------
(* claude-monitor-tauri main.rs: read_new_events and the writer of the log
   (SpecSeek, SpecTail) *)

\* number of times the log is truncated
MaxTruncations == 1

seekFrame == <<logFile, procFile, dpc, rdpos, held, leftovers, writerVars, fed, regVars,
               lockVars, diffVars>>

\* the hook appends one line to the log, creating the file when it is absent
HookAppendBytes ==
    /\ seek.appended < MaxLines
    /\ seek' = [seek EXCEPT !.exists = TRUE,
                            !.bytes = @ \o <<seek.appended + 1, Newline>>,
                            !.appended = @ + 1]
    /\ UNCHANGED <<storeVars, new_events, seekFrame>>

\* an empty line reaches the log
HookAppendEmptyLine ==
    /\ seek.appended < MaxLines
    /\ seek' = [seek EXCEPT !.exists = TRUE,
                            !.bytes = @ \o <<Newline>>,
                            !.appended = @ + 1]
    /\ UNCHANGED <<storeVars, new_events, seekFrame>>

\* the log is emptied in place between two calls of the reader
TruncateLog ==
    /\ seek.pc = "idle"
    /\ seek.exists
    /\ seek.bytes # <<>>
    /\ seek.truncated < MaxTruncations
    /\ seek' = [seek EXCEPT !.bytes = <<>>, !.truncated = @ + 1]
    /\ UNCHANGED <<storeVars, new_events, seekFrame>>

\* main.rs:293-310  read_new_events up to the seek: no file, or the size is
\* read, the offset reset when the size is below it, and the cursor placed
SeekBegin ==
    /\ seek.pc = "idle"
    /\ new_events' = <<>>
    /\ IF ~seek.exists
       THEN UNCHANGED <<seek, storeVars>>
       ELSE LET file_size == Len(seek.bytes)
                pos == offset_after_size_check(file_size, last_file_pos)
            IN  /\ last_file_pos' = pos
                /\ seek' = [seek EXCEPT !.pc = IF file_size > pos THEN "read" ELSE "idle",
                                        !.size = file_size,
                                        !.start = pos,
                                        !.rd = pos,
                                        !.shrunk = file_size < last_file_pos]
                /\ UNCHANGED <<sessions, recent_events>>
    /\ UNCHANGED seekFrame

\* main.rs:312-319  one turn of the loop: the next line, skipped when empty
\* or not an EventInfo, otherwise processed and pushed
SeekReadLine ==
    /\ seek.pc = "read"
    /\ seek.rd < Len(seek.bytes)
    /\ LET line == LineAt(seek.bytes, seek.rd)
           p == legacy_parse(line)
       IN  /\ seek' = [seek EXCEPT !.rd = LineEnd(seek.bytes, seek.rd)]
           /\ IF line # <<>> /\ p.ok
              THEN /\ recent_events' = legacy_push_recent(recent_events, p.event)
                   /\ sessions' = legacy_apply(sessions, p.event)
                   /\ new_events' = Append(new_events, p.event)
              ELSE UNCHANGED <<recent_events, sessions, new_events>>
    /\ UNCHANGED <<last_file_pos, seekFrame>>

\* main.rs:312, 321-326  the end of the file is reached: the offset becomes
\* the size read at entry and the call returns
SeekReadEof ==
    /\ seek.pc = "read"
    /\ seek.rd >= Len(seek.bytes)
    /\ last_file_pos' = seek.size
    /\ seek' = [seek EXCEPT !.pc = "idle"]
    /\ UNCHANGED <<sessions, recent_events, new_events, seekFrame>>

\* the writer appends, also during a call; the log may be truncated between calls
NextSeek ==
    \/ HookAppendBytes
    \/ HookAppendEmptyLine
    \/ TruncateLog
    \/ SeekBegin
    \/ SeekReadLine
    \/ SeekReadEof

SpecSeek == Init /\ [][NextSeek]_vars

\* the writer only appends, also during a call
NextTail ==
    \/ HookAppendBytes
    \/ HookAppendEmptyLine
    \/ SeekBegin
    \/ SeekReadLine
    \/ SeekReadEof

SpecTail == Init /\ [][NextTail]_vars

\* the numbers of the lines of the file that parse, from its first byte
RECURSIVE LineIdsFrom(_, _)
LineIdsFrom(bytes, rd) ==
    IF rd >= Len(bytes) THEN <<>>
    ELSE LET line == LineAt(bytes, rd)
             rest == LineIdsFrom(bytes, LineEnd(bytes, rd))
         IN  IF line # <<>> /\ legacy_parse(line).ok THEN <<line[1]>> \o rest ELSE rest

\* C31: a call that finds the size below the remembered offset resets the
\* offset to zero, processes every line from the first byte and returns with
\* the offset equal to the size it read; a call that finds the size equal to
\* the offset changes nothing and returns no event
TruncationRestartsFromZero ==
    [][/\ (SeekBegin /\ seek.exists /\ Len(seek.bytes) < last_file_pos) =>
             /\ last_file_pos' = 0
             /\ seek'.rd = 0
             /\ (Len(seek.bytes) = 0 => seek'.pc = "idle" /\ new_events' = <<>>)
       /\ (SeekReadEof /\ seek.shrunk) =>
             /\ last_file_pos' = seek.size
             /\ Ids(new_events') = LineIdsFrom(seek.bytes, 0)
       /\ (SeekBegin /\ seek.exists /\ Len(seek.bytes) = last_file_pos) =>
             /\ UNCHANGED storeVars
             /\ new_events' = <<>>
             /\ seek'.pc = "idle"
      ]_vars

ReadAgainAfterTruncation ==
    /\ seek.pc = "idle"
    /\ seek.shrunk
    /\ seek.truncated = 1
    /\ last_file_pos = seek.size
    /\ last_file_pos > 0
    /\ new_events # <<>>

\* C38: no line of the log is processed twice
EachLineAtMostOnce ==
    \A i, j \in 1..Len(recent_events) :
        i # j => recent_events[i].session_id # recent_events[j].session_id

----------------------------------------------------------------------------
(* The drain's batch and the commands that read the store (SpecWatch) *)

\* a thread is between the start of a drain and the end of the block that
\* emits and saves its result
InBatch(t) == t # "cmd" /\ spc[t] \in {"call", "save"}

\* C37: a command reads or changes the store only while no drain is between
\* its first step and its return, holding the lock that the draining thread
\* would hold; and when a draining thread emits the store, the drain has
\* returned and every event of its batch is in the store's recent events
BatchAtomicForReaders ==
    /\ [](\A t \in StoreThreads :
             (InBatch(t) /\ spc[t] = "save") =>
                 /\ stateLock = t
                 /\ dpc = "idle"
                 /\ \A i \in 1..Len(new_events) :
                        new_events[i].session_id \in {recent_events[k].session_id :
                                                        k \in 1..Len(recent_events)})
    /\ [][(spc["cmd"] = "remove" /\ spc'["cmd"] # "remove") =>
             /\ stateLock = "cmd"
             /\ dpc = "idle"
             /\ \A t \in StoreThreads : ~InBatch(t)
             /\ UNCHANGED <<recent_events, drainVars>>
         ]_vars

\* C37 witness: a command waits for the lock while the watcher has applied
\* the first line of a rotated file and not yet the second
CommandWaitsMidBatch ==
    /\ spc["cmd"] = "lock"
    /\ spc["watcher"] = "call"
    /\ stateLock = "watcher"
    /\ dpc = "read"
    /\ rdpos >= 1
    /\ rdpos < Len(procFile.lines)
    /\ Len(new_events) >= 1

----------------------------------------------------------------------------
(* The watcher loop after the writer has stopped (SpecQuiesce) *)

\* a step of the setup closure or of the watcher thread
WatchThreadStep ==
    \/ \E t \in StoreThreads \ {"cmd"} : StoreLock(t)
    \/ \E t \in StoreThreads \ {"cmd"} : DrainNothing /\ Draining(t, 0)
    \/ \E t \in StoreThreads \ {"cmd"} : DrainBegin /\ Draining(t, 0)
    \/ \E t \in StoreThreads \ {"cmd"} : DrainRename /\ Draining(t, 1)
    \/ \E t \in StoreThreads \ {"cmd"} : DrainRenameFails /\ Draining(t, 0)
    \/ \E t \in StoreThreads \ {"cmd"} : DrainRecreate /\ Draining(t, 1)
    \/ \E t \in StoreThreads \ {"cmd"} : DrainRecreateFails /\ Draining(t, 0)
    \/ \E t \in StoreThreads \ {"cmd"} : DrainOpen /\ Draining(t, 0)
    \/ \E t \in StoreThreads \ {"cmd"} : DrainReadLine /\ Draining(t, 0)
    \/ \E t \in StoreThreads \ {"cmd"} : DrainReadEof /\ Draining(t, 0)
    \/ \E t \in StoreThreads \ {"cmd"} : DrainDelete /\ Draining(t, 1)
    \/ \E t \in StoreThreads \ {"cmd"} : SaveRuntimeState(t)
    \/ \E t \in StoreThreads \ {"cmd"} : StoreUnlock(t)
    \/ StartFileWatcher
    \/ WatcherRecv

\* the setup closure, the watcher thread and the hook
NextQuiesce ==
    \/ WatchThreadStep
    \/ HookOpen /\ UNCHANGED <<stateLock, spc, notified, diffVars, seek>>
    \/ /\ HookWrite
       /\ written'[Len(written')].timestamp = 1
       /\ notified' = Raise(1)
       /\ UNCHANGED <<stateLock, spc, diffVars, seek>>

\* the setup closure and the watcher thread are scheduled for as long as they
\* can take a step
SpecQuiesce == Init /\ [][NextQuiesce]_vars /\ WF_vars(WatchThreadStep)

\* the hook has written its last line and closed the log
WriterStopped == Len(written) = MaxLines /\ wfd = "closed"

\* the watcher waits in rx.recv() on an empty channel and no drain is under way
Quiescent ==
    /\ spc["watcher"] = "recv"
    /\ spc["setup"] = "done"
    /\ notified = 0
    /\ dpc = "idle"
    /\ stateLock = "none"

\* C36: a drain that finds events.jsonl absent or empty changes no file and
\* raises no notification; and once the hook has stopped, the watcher comes to
\* rest on an empty channel and stays there, so that neither the store nor
\* the files change again
WatcherComesToRest ==
    /\ [][(dpc = "idle" /\ (~logFile.exists \/ logFile.lines = <<>>)
             /\ \E t \in StoreThreads : spc[t] = "call" /\ spc'[t] # "call") =>
                /\ UNCHANGED <<logFile, procFile, storeVars>>
                /\ notified' = notified
         ]_vars
    /\ [][(WriterStopped /\ Quiescent) =>
             UNCHANGED <<storeVars, logFile, procFile, dpc, notified>>]_vars
    /\ (WriterStopped ~> [](WriterStopped /\ Quiescent))

\* C36 witness: the hook has stopped, all its lines are applied, the log has
\* been recreated empty and the watcher is at rest
AtRestAfterDrains ==
    /\ WriterStopped
    /\ Quiescent
    /\ Len(recent_events) = MaxLines
    /\ logFile = EmptyFile
    /\ ~procFile.exists

====
